---- MODULE Spec2Model ----
(***************************************************************************)
(* A model of snapshotplot: the process-wide timestamp source              *)
(* (snapshotplot/timestamp.py), the capture recorder                       *)
(* (snapshotplot/snapshot.py), the static site builder                     *)
(* (snapshotplot/site_generator.py), the command line (snapshotplot/cli.py)*)
(* and the cloud publisher (snapshotplot/publisher.py).                    *)
(*                                                                         *)
(* Each subsystem has its own specification over the shared variables:     *)
(*   SpecTime     the timestamp module and the system clock                *)
(*   SpecTimeFair the same, with a loop that keeps running and a clock     *)
(*                that keeps moving                                        *)
(*   SpecCapture  captures through the snapshot decorator                  *)
(*   SpecPublish  captures into a site root                                *)
(*   SpecCalling  get_calling_info on the call stacks it can meet          *)
(*   SpecSite     a site root on disk and SiteGenerator.build              *)
(*   SpecBuildArg build called with an output directory of its caller's    *)
(*                choice                                                   *)
(*   SpecCli      `snapshotplot collection create` in a site root          *)
(*   SpecCloud    publish_snapshot against the cloud service               *)
(*   SpecAuto     captures with auto_commit, auto_build and auto_deploy    *)
(***************************************************************************)
EXTENDS Integers, Sequences, FiniteSets, TLC

VARIABLES
    \* ---- snapshotplot/timestamp.py: module globals
    GLOBAL_TIMESTAMP,        \* _GLOBAL_TIMESTAMP: cached token, NoToken when unset
    GLOBAL_DATETIME,         \* _GLOBAL_DATETIME: cached clock reading, NoDatetime when unset
    LAST_EMITTED_TIMESTAMP,  \* _LAST_EMITTED_TIMESTAMP: last token generate_timestamp returned
    \* ---- the environment's wall clock and the call blocked in generate_timestamp
    now,                     \* what datetime.now(timezone.utc) reads, in clock ticks
    tsCall,                  \* "idle", or the public call whose generate_timestamp loop is running
    spins,                   \* time.sleep(0.001) calls made by the running loop (capped)
    \* ---- observations of the timestamp module's callers
    emitted,                 \* tokens returned by generate_timestamp, in order
    epochTokens,             \* tokens get_timestamp returned since the last reset_timestamp
    beforeReset,             \* the current token when reset_timestamp was last called
    \* ---- snapshotplot/snapshot.py: captures through the snapshot decorator
    files,                   \* the files under the capture output directory
    captures,                \* captures made so far
    io,                      \* which writes of a capture fail in this run's environment
    prev,                    \* the capture before the last one
    last,                    \* the last capture: what it did and what its caller saw
    \* ---- snapshotplot/code_capture.py
    call_stack,              \* what inspect and the file system yield to get_calling_info
    calling_info,            \* the last call of get_calling_info: its depth and what it returned
    \* ---- snapshotplot/site_generator.py: a site root and its output directory
    config_yml,              \* whether the site root holds _config.yml
    collections,             \* the collections directory: collections and entries as iterdir() yields them
    docs,                    \* the files under the output directory
    all_plots,               \* what get_all_plots returned to the build that ran last
    lastOp,                  \* what happened last to the site root or the output directory
    result,                  \* how it ended if it was a build: "ok", "error" or "refused"
    rebuilt,                 \* it was a build that followed a build that returned
    stale,                   \* it was a build, begun with files in the output directory that it did not write
    \* ---- snapshotplot/cli.py: what `snapshotplot collection create` reads and writes
    site_config,             \* the YAML document that _config.yml holds when it exists
    index_mds,               \* the _index.md files of the collection directories
    declared,                \* the arguments of the last `collection create`
    \* ---- snapshotplot/publisher.py
    published                \* the last run of publish_snapshot: what it met, the requests it made, how it ended

timeVars == <<GLOBAL_TIMESTAMP, GLOBAL_DATETIME, LAST_EMITTED_TIMESTAMP,
              now, tsCall, spins, emitted, epochTokens, beforeReset>>

capVars == <<files, captures, io, prev, last, call_stack, calling_info>>

outVars == <<docs, all_plots, lastOp, result, rebuilt, stale>>

siteVars == <<config_yml, collections, docs, all_plots, lastOp, result, rebuilt, stale>>

toolVars == <<site_config, index_mds, declared, published>>

vars == <<timeVars, capVars, siteVars, toolVars>>

(***************************************************************************)
(* Bounds of the model.                                                    *)
(***************************************************************************)
\* the wall clock reads 0..MaxTick
MaxTick == 5
\* clock ticks per millisecond: the part of %f that [:-3] cuts off
TicksPerMs == 2
\* tokens generated in one behaviour
MaxEmit == 3
\* sleeps counted in one generate_timestamp call
MaxSpin == 2
\* captures made in one behaviour
MaxCaptures == 2
\* entry directories in a site root
MaxEntries == 2
\* instants per calendar day
InstantsPerDay == 2
\* datetime.now() reads 0..MaxNow during a build
MaxNow == 2
\* frames on the stack when get_calling_info runs, its own included
MaxFrames == 3
\* the depth get_calling_info is called with
MaxDepth == 3
\* captures that commit, build or deploy, made in one behaviour
MaxAutoCaptures == 1

(***************************************************************************)
(* snapshotplot/timestamp.py                                               *)
(***************************************************************************)
\* None, for a token and for a datetime
NoToken == <<>>
NoDatetime == -1

\* dt.strftime("%Y%m%d_%H%M%S_%f")[:-3]: fixed-width, zero-padded decimal
\* fields, most significant first, cut to whole milliseconds
Strftime(dt) ==
    LET ms == dt \div TicksPerMs
    IN  <<ms \div 10, ms % 10>>

\* the three module globals as one value
TimestampModule ==
    [ts |-> GLOBAL_TIMESTAMP, dt |-> GLOBAL_DATETIME, last |-> LAST_EMITTED_TIMESTAMP]

\* a pass that returns the candidate whatever was emitted last
generate_timestamp_no_retry(g, dt) ==
    [done |-> TRUE, ret |-> Strftime(dt),
     g |-> [ts |-> Strftime(dt), dt |-> dt, last |-> Strftime(dt)]]

\* one pass of generate_timestamp's while-loop on the clock reading dt:
\* leaves the loop and stores the candidate, or sleeps and goes round again
generate_timestamp(g, dt) ==
    LET candidate == Strftime(dt)
    IN  IF candidate # g.last
        THEN [done |-> TRUE, ret |-> candidate,
              g |-> [ts |-> candidate, dt |-> dt, last |-> candidate]]
        ELSE [done |-> FALSE, ret |-> NoToken, g |-> g]

\* a reset that leaves the cache as it is
reset_timestamp_keeps_cache(g) == g

\* a reset that forgets the last emitted token with the cache
reset_timestamp_clears_last(g) ==
    [ts |-> NoToken, dt |-> NoDatetime, last |-> NoToken]

\* reset_timestamp(): clears the cache, keeps the last emitted token
reset_timestamp(g) == [g EXCEPT !.ts = NoToken, !.dt = NoDatetime]

SetTimestampModule(g) ==
    /\ GLOBAL_TIMESTAMP' = g.ts
    /\ GLOBAL_DATETIME' = g.dt
    /\ LAST_EMITTED_TIMESTAMP' = g.last

\* get_current_timestamp() (alias get_timestamp): the cached token, or a
\* call of generate_timestamp when there is none
get_current_timestamp ==
    /\ tsCall = "idle"
    /\ IF GLOBAL_TIMESTAMP # NoToken
       THEN /\ epochTokens' = epochTokens \cup {GLOBAL_TIMESTAMP}
            /\ UNCHANGED <<GLOBAL_TIMESTAMP, GLOBAL_DATETIME, LAST_EMITTED_TIMESTAMP,
                           now, tsCall, spins, emitted, beforeReset>>
       ELSE /\ Len(emitted) < MaxEmit
            /\ tsCall' = "get_timestamp"
            /\ UNCHANGED <<GLOBAL_TIMESTAMP, GLOBAL_DATETIME, LAST_EMITTED_TIMESTAMP,
                           now, spins, emitted, epochTokens, beforeReset>>

\* get_current_datetime() (alias get_datetime): the cached datetime, or a
\* call of generate_timestamp when there is none
get_current_datetime ==
    /\ tsCall = "idle"
    /\ GLOBAL_DATETIME = NoDatetime
    /\ Len(emitted) < MaxEmit
    /\ tsCall' = "get_datetime"
    /\ UNCHANGED <<GLOBAL_TIMESTAMP, GLOBAL_DATETIME, LAST_EMITTED_TIMESTAMP,
                   now, spins, emitted, epochTokens, beforeReset>>

\* the running generate_timestamp loop reads the clock once
GenerateLoop ==
    /\ tsCall # "idle"
    /\ LET r == generate_timestamp(TimestampModule, now)
       IN  IF r.done
           THEN /\ SetTimestampModule(r.g)
                /\ emitted' = Append(emitted, r.ret)
                /\ epochTokens' = IF tsCall = "get_timestamp"
                                  THEN epochTokens \cup {r.ret}
                                  ELSE epochTokens
                /\ tsCall' = "idle"
                /\ spins' = 0
                /\ UNCHANGED <<now, beforeReset>>
           ELSE /\ spins' = IF spins < MaxSpin THEN spins + 1 ELSE spins
                /\ UNCHANGED <<GLOBAL_TIMESTAMP, GLOBAL_DATETIME, LAST_EMITTED_TIMESTAMP,
                               now, tsCall, emitted, epochTokens, beforeReset>>

\* a caller (a test, a new run) calls reset_timestamp()
ResetTimestamp ==
    /\ tsCall = "idle"
    /\ SetTimestampModule(reset_timestamp(TimestampModule))
    /\ beforeReset' = IF GLOBAL_TIMESTAMP # NoToken THEN GLOBAL_TIMESTAMP ELSE beforeReset
    /\ epochTokens' = {}
    /\ UNCHANGED <<now, tsCall, spins, emitted>>

\* the wall clock moves: forward as time passes, or to any other reading
\* when it is stepped (NTP, a manual change)
ClockStep ==
    /\ \E t \in 0..MaxTick : t # now /\ now' = t
    /\ UNCHANGED <<GLOBAL_TIMESTAMP, GLOBAL_DATETIME, LAST_EMITTED_TIMESTAMP,
                   tsCall, spins, emitted, epochTokens, beforeReset>>

InitTimestampModule ==
    /\ GLOBAL_TIMESTAMP = NoToken
    /\ GLOBAL_DATETIME = NoDatetime
    /\ LAST_EMITTED_TIMESTAMP = NoToken
    /\ tsCall = "idle"
    /\ spins = 0
    /\ emitted = <<>>
    /\ epochTokens = {}
    /\ beforeReset = NoToken

(***************************************************************************)
(* snapshotplot/file_manager.py                                            *)
(*                                                                         *)
(* A file name is the sequence of its parts: <<"demo", "py">> is demo.py,  *)
(* <<token, "_code.py">> is <token>_code.py.  A path is [dir, name].       *)
(***************************************************************************)
\* create_output_directory(base_dir, filename): snapshot_<filename without
\* .py> under the base directory, created when missing and reused otherwise
create_output_directory(filename) ==
    LET stem == IF Len(filename) >= 2 /\ filename[Len(filename)] = "py"
                THEN SubSeq(filename, 1, Len(filename) - 1)
                ELSE filename
    IN  <<"snapshot_">> \o stem

\* generate_filename(extension, timestamp)
generate_filename(extension, timestamp) ==
    CASE extension = "py"   -> <<timestamp, "_code.py">>
      [] extension = "png"  -> <<timestamp, "_plot.png">>
      [] extension = "html" -> <<timestamp, "_snapshot.html">>
      [] OTHER              -> <<timestamp, extension>>

\* file paths whose image name leaves the token out
get_file_paths_plain_image(output_dir, timestamp) ==
    [code |-> [dir |-> output_dir, name |-> generate_filename("py", timestamp)],
     plot |-> [dir |-> output_dir, name |-> generate_filename("png", NoToken)],
     html |-> [dir |-> output_dir, name |-> generate_filename("html", timestamp)]]

\* get_file_paths(output_dir, filename, timestamp)
get_file_paths(output_dir, timestamp) ==
    [code |-> [dir |-> output_dir, name |-> generate_filename("py", timestamp)],
     plot |-> [dir |-> output_dir, name |-> generate_filename("png", timestamp)],
     html |-> [dir |-> output_dir, name |-> generate_filename("html", timestamp)]]

\* the titles given to @snapshot(title=...).  A text value is a sequence of
\* stretches of characters; the stretch "---" is three dashes in a row, no
\* other stretch holds three dashes in a row: <<"a", "---", "b">> is a---b
Titles == {<<"My Plot">>, <<"a", "---", "b">>}
\* title=None
NoTitle == <<>>

\* sanitize_filename of one stretch, for the stretches that occur: each of
\* <>:"/\|?* becomes '_', each space '-', leading and trailing spaces and
\* dots go
sanitize_stretch(s) ==
    CASE s = "My Plot" -> "My-Plot"
      [] OTHER         -> s

\* sanitize_filename(filename): AttributeError for None (raised |-> TRUE),
\* 'unnamed' when nothing is left
sanitize_filename(filename) ==
    [raised |-> filename = NoTitle,
     name |-> [i \in 1..Len(filename) |-> sanitize_stretch(filename[i])]]

(***************************************************************************)
(* snapshotplot/code_capture.py                                            *)
(*                                                                         *)
(* A call stack is what get_calling_info can see: frames, the frames that  *)
(* inspect yields, get_calling_info's own included (0: currentframe()      *)
(* returns None); of the frame it looks for, the function name and whether *)
(* the frame's globals hold a function of that name (in_globals); whether  *)
(* inspect.getsourcelines of that function succeeds (getsourcelines);      *)
(* whether the frame's file can be opened and read (file).                 *)
(***************************************************************************)
CallStacks ==
    [frames : 0..MaxFrames, function_name : {"<module>", "plot_a"},
     in_globals : BOOLEAN, getsourcelines : BOOLEAN, file : BOOLEAN]

\* the texts a source can come back as
FunctionText == "def plot_a"
FileText == "the text of demo.py"
Placeholder == "# Source code not available for demo.py"

\* _get_fallback_info()
_get_fallback_info ==
    [function_name |-> "unknown_function", filename |-> <<"unknown_file", "py">>,
     source_code |-> "# Source code not available", raised |-> FALSE]

\* _get_source_code(func_obj, filename, line_number): func_obj is whether a
\* function object was found
_get_source_code(stack, func_obj) ==
    LET try == IF func_obj
               THEN [raised |-> ~stack.getsourcelines, ret |-> FunctionText]
               ELSE [raised |-> ~stack.file, ret |-> FileText]
    IN  IF try.raised THEN [raised |-> FALSE, ret |-> Placeholder] ELSE try

\* get_calling_info(depth): the frame is found when depth frames lie above
\* get_calling_info's own
get_calling_info(stack, depth) ==
    IF stack.frames < depth + 1 THEN _get_fallback_info
    ELSE LET func_obj == stack.function_name # "<module>" /\ stack.in_globals
             source_code == _get_source_code(stack, func_obj)
         IN  IF source_code.raised THEN _get_fallback_info
             ELSE [function_name |-> stack.function_name,
                   filename |-> <<"demo", "py">>,
                   source_code |-> source_code.ret, raised |-> FALSE]

\* get_calling_info has not been called
NotCalled == [depth |-> 0, info |-> _get_fallback_info]

InitCalling ==
    /\ call_stack \in CallStacks
    /\ calling_info = NotCalled

\* a call of get_calling_info(depth)
GetCallingInfo ==
    /\ \E depth \in 1..MaxDepth :
         calling_info' = [depth |-> depth, info |-> get_calling_info(call_stack, depth)]
    /\ UNCHANGED call_stack

(***************************************************************************)
(* snapshotplot/snapshot.py                                                *)
(***************************************************************************)
\* the functions that make captures: what get_calling_info(depth=3) finds
Callers ==
    {[function_name |-> "plot_a", filename |-> <<"demo", "py">>, source_code |-> "def plot_a"],
     [function_name |-> "plot_b", filename |-> <<"other", "py">>, source_code |-> "def plot_b"]}

\* what a wrapped function can return
RetVals == {1, 2}
NoValue == 0
NoName == <<>>

\* open(path, 'w') and write: the file is created or replaced
WriteFile(fs, path, content) ==
    {f \in fs : f.path # path} \cup {[path |-> path, content |-> content]}

Exists(fs, path) == \E f \in fs : f.path = path

\* the content of a capture's three files
CodeContent(ctx) ==
    [kind |-> "code", src |-> ctx.calling_info.source_code, fig |-> 0,
     img |-> NoName, date |-> NoToken]
PlotContent(fig) ==
    [kind |-> "plot", src |-> "", fig |-> fig, img |-> NoName, date |-> NoToken]
\* html_writer.generate_html: the page embeds the code, the image's file name
\* (or the no-plot placeholder when it is empty) and the capture's date
HtmlContent(ctx, plot_filename) ==
    [kind |-> "html", src |-> ctx.calling_info.source_code, fig |-> 0,
     img |-> plot_filename, date |-> ctx.timestamp]

\* the state threaded through one capture's steps: the files on disk, the
\* paths written, the warnings issued, the steps entered, an exception on
\* its way out; the site root (config_yml, collections), the entry directory
\* written into it (entry) and the clock's reading at the site step (now)
Warn(st, w) == [st EXCEPT !.warnings = Append(@, w)]
Put(st, path, content) ==
    [st EXCEPT !.files = WriteFile(@, path, content), !.written = @ \cup {path}]
Step(st, s) == [st EXCEPT !.steps = Append(@, s)]

\* the options of @snapshot(...) after merge_configs(get_default_config(),
\* validate_config(...)): the title (NoTitle for None), whether site= names
\* the site root, the collection (NoCollection for None), the tags
NoCollection == ""
Config(title, site, collection, tags) ==
    [title |-> title, site |-> site, collection |-> collection, tags |-> tags,
     auto_commit |-> FALSE, auto_build |-> FALSE, auto_deploy |-> FALSE]
\* the same options with auto_commit=, auto_build= and auto_deploy= given
Auto(config, commit, rebuild, deploy) ==
    [config EXCEPT !.auto_commit = commit, !.auto_build = rebuild,
                   !.auto_deploy = deploy]
\* @snapshot()
DefaultConfig == Config(NoTitle, FALSE, NoCollection, <<>>)

\* no entry directory was written
NoEntry == [collection |-> NoCollection, name |-> [token |-> NoToken, title |-> NoTitle]]

\* SnapshotContext.__init__ and __enter__ once the token is known
SnapshotContext_enter(config, caller, timestamp) ==
    [config |-> config,
     timestamp |-> timestamp,
     calling_info |-> caller,
     file_paths |-> get_file_paths(create_output_directory(caller.filename), timestamp)]

\* an exception leaves a step; "try: ... except Exception as e:
\* warnings.warn(...)" turns it into a warning
Raise(st) == [st EXCEPT !.raised = TRUE]
Catch(st, w) == IF st.raised THEN [Warn(st, w) EXCEPT !.raised = FALSE] ELSE st

\* a _save_source_code without the try: the failure of the write leaves it
_save_source_code_unguarded(st0, ctx, fail) ==
    LET st == Step(st0, "code")
    IN  IF fail.code THEN Raise(st)
        ELSE Put(st, ctx.file_paths.code, CodeContent(ctx))

\* SnapshotContext._save_source_code
_save_source_code(st0, ctx, fail) ==
    LET st == Step(st0, "code")
        try == IF fail.code THEN Raise(st)
               ELSE Put(st, ctx.file_paths.code, CodeContent(ctx))
    IN  Catch(try, "Failed to save source code")

\* utils.save_current_plot: catches the failure of fig.savefig itself
save_current_plot(st, filepath, fig, fail) ==
    LET try == IF fail.plot THEN Raise(st) ELSE Put(st, filepath, PlotContent(fig))
    IN  Catch(try, "Failed to save plot to file")

\* SnapshotContext._save_plot: [st, plot_saved]
_save_plot(st0, ctx, fig, fail) ==
    LET st == Step(st0, "plot")
    IN  IF fig = 0
        THEN [st |-> st, plot_saved |-> FALSE]
        ELSE LET try == save_current_plot(st, ctx.file_paths.plot, fig, fail)
             IN  [st |-> Catch(try, "Failed to save plot"),
                  plot_saved |-> ~try.raised]

\* html_writer.create_html_snapshot: renders the page and saves it; save_html
\* raises IOError when the file cannot be written
create_html_snapshot(st, ctx, plot_path, fail) ==
    IF fail.html THEN Raise(st)
    ELSE Put(st, ctx.file_paths.html, HtmlContent(ctx, plot_path))

\* a _create_html_documentation that names the image whether or not one was
\* saved
_create_html_documentation_always_image(st0, ctx, plot_saved, fail) ==
    LET st == Step(st0, "html")
        try == create_html_snapshot(st, ctx, ctx.file_paths.plot.name, fail)
    IN  Catch(try, "Failed to create HTML documentation")

\* SnapshotContext._create_html_documentation
_create_html_documentation(st0, ctx, plot_saved, fail) ==
    LET st == Step(st0, "html")
        plot_path == IF plot_saved THEN ctx.file_paths.plot.name ELSE NoName
        try == create_html_snapshot(st, ctx, plot_path, fail)
    IN  Catch(try, "Failed to create HTML documentation")

\* the text of a file is a sequence of pieces: a stretch of characters
\* ("text"), three dashes ("---"), a line end ("nl"), the key of a YAML
\* mapping with its colon ("key"), the dash of a YAML list item ("item"),
\* the empty list [] ("[]"), the quoted ISO string of an instant ("date")
Piece(k, s, d) == [k |-> k, s |-> s, d |-> d]
Dashes == Piece("---", "", 0)
Newline == Piece("nl", "", 0)
Key(k) == Piece("key", k, 0)
Item == Piece("item", "", 0)

\* a text value as it stands in a file
scalar(v) ==
    [i \in 1..Len(v) |-> IF v[i] = "---" THEN Dashes ELSE Piece("text", v[i], 0)]

\* yaml.dump of one key with a text value
dump_str(k, v) == <<Key(k)>> \o scalar(v) \o <<Newline>>

\* yaml.dump of the items of a list, block style
RECURSIVE dump_items(_)
dump_items(vs) ==
    IF vs = <<>> THEN <<>>
    ELSE <<Item>> \o scalar(Head(vs)) \o <<Newline>> \o dump_items(Tail(vs))

\* yaml.dump(metadata, default_flow_style=False): the keys in sorted order;
\* author and description are None here and were removed
yaml_dump(metadata) ==
    dump_str("code_file", <<metadata.code_file>>)
    \o <<Key("date"), Piece("date", "", metadata.date), Newline>>
    \o dump_str("filename", metadata.filename)
    \o dump_str("function_name", <<metadata.function_name>>)
    \o dump_str("plot_image", <<metadata.plot_image>>)
    \o (IF metadata.tags = <<>>
        THEN <<Key("tags"), Piece("[]", "", 0), Newline>>
        ELSE <<Key("tags"), Newline>> \o dump_items(metadata.tags))
    \o dump_str("title", metadata.title)

\* the index.md of an entry: '---', the header, '---', an empty line, the
\* line that names the function
index_md(metadata) ==
    <<Dashes, Newline>> \o yaml_dump(metadata) \o <<Dashes, Newline, Newline>>
    \o <<Piece("text", "Generated from", 0)>>
    \o scalar(<<metadata.function_name>>) \o <<Newline>>

\* site_generator.py reads the index.md back:
\* the place of the first '---' of a text from place n on, 0 when none
find_dashes(content, n) ==
    LET S == {i \in n..Len(content) : content[i] = Dashes}
    IN  IF S = {} THEN 0 ELSE CHOOSE i \in S : \A j \in S : i <= j

\* content.split('---', 2): at most three parts, cut at the first two '---'
split_dashes(content, i, j) ==
    IF i = 0 THEN <<content>>
    ELSE IF j = 0
    THEN <<SubSeq(content, 1, i - 1), SubSeq(content, i + 1, Len(content))>>
    ELSE <<SubSeq(content, 1, i - 1), SubSeq(content, i + 1, j - 1),
           SubSeq(content, j + 1, Len(content))>>

\* the place of key k in a YAML text, 0 when it has none
key_at(text, k) ==
    LET S == {i \in 1..Len(text) : text[i] = Key(k)}
    IN  IF S = {} THEN 0 ELSE CHOOSE i \in S : \A j \in S : i <= j

\* the place after the last piece of the line that place i is on
line_end(text, i) ==
    LET S == {j \in i..Len(text) : text[j] = Newline}
    IN  IF S = {} THEN Len(text) + 1 ELSE CHOOSE j \in S : \A l \in S : j <= l

\* the text value that a run of pieces stands for
text_of(pieces) == [j \in 1..Len(pieces) |-> pieces[j].s]

\* the items of a block list whose first line starts at place i
RECURSIVE load_items(_, _)
load_items(text, i) ==
    IF i > Len(text) \/ text[i] # Item THEN <<>>
    ELSE <<text_of(SubSeq(text, i + 1, line_end(text, i) - 1))>>
         \o load_items(text, line_end(text, i) + 1)

\* the value of the key at place i: what follows it on its line, or the
\* items of the lines below; null |-> TRUE when there is neither
load_value(text, i) ==
    IF i = 0 THEN [null |-> TRUE, str |-> <<>>, list |-> <<>>, date |-> NoDatetime]
    ELSE LET here == SubSeq(text, i + 1, line_end(text, i) - 1)
             below == load_items(text, line_end(text, i) + 1)
         IN  [null |-> here = <<>> /\ below = <<>>,
              str |-> text_of(here),
              list |-> IF here = <<>> THEN below ELSE <<>>,
              date |-> IF Len(here) = 1 /\ here[1].k = "date" THEN here[1].d
                       ELSE NoDatetime]

\* yaml.safe_load of a header: the keys that have a value, and the title,
\* tags and date among them; None for a text without keys
safe_load(text) ==
    [status |-> IF \E i \in 1..Len(text) : text[i].k = "key" THEN "ok" ELSE "none",
     keys |-> {k \in {"title", "tags", "date"} : ~load_value(text, key_at(text, k)).null},
     title |-> load_value(text, key_at(text, "title")).str,
     tags |-> load_value(text, key_at(text, "tags")).list,
     date |-> load_value(text, key_at(text, "date")).date]

\* _load_plot_metadata on the text of an index.md: the header between the
\* first two '---'; None without a leading '---' or a second one; raises
\* (front_matter['content'] = ...) when the header loads as None
load_front_matter(content) ==
    LET parts == split_dashes(content, find_dashes(content, 1),
                              find_dashes(content, find_dashes(content, 1) + 1))
    IN  IF content = <<>> \/ content[1] # Dashes \/ Len(parts) < 3
        THEN [safe_load(<<>>) EXCEPT !.status = "none"]
        ELSE IF safe_load(parts[2]).status = "none"
        THEN [safe_load(<<>>) EXCEPT !.status = "raise"]
        ELSE safe_load(parts[2])

\* Path.mkdir(parents=True, exist_ok=True) of a collection directory
mkdir(cs, name) ==
    IF \E i \in 1..Len(cs) : cs[i].name = name THEN cs
    ELSE Append(cs, [name |-> name, entries |-> <<>>])

\* plot_dir.mkdir(parents=True, exist_ok=True), the copies and the write of
\* index.md: a directory of that name is reused, its files replaced by name
write_plot_dir(entries, plot_dir) ==
    IF \E i \in 1..Len(entries) : entries[i].name = plot_dir.name
    THEN [i \in 1..Len(entries) |->
            IF entries[i].name = plot_dir.name
            THEN [plot_dir EXCEPT !.files = @ \cup entries[i].files]
            ELSE entries[i]]
    ELSE Append(entries, plot_dir)

\* the entry directory of a capture: <token>_<sanitized title>, with
\* plot.png and code.py when the capture directory holds the capture's image
\* and code, and index.md
plot_dir_of(st, ctx, name) ==
    [name |-> [token |-> ctx.timestamp, title |-> name],
     index_md |-> index_md(
        [title |-> IF ctx.config.title # NoTitle THEN ctx.config.title
                   ELSE <<ctx.calling_info.function_name>>,
         date |-> st.now,
         tags |-> ctx.config.tags,
         plot_image |-> "plot.png",
         code_file |-> "code.py",
         function_name |-> ctx.calling_info.function_name,
         filename |-> ctx.calling_info.filename]),
     files |-> {"index.md"}
               \cup (IF Exists(st.files, ctx.file_paths.plot) THEN {"plot.png"} ELSE {})
               \cup (IF Exists(st.files, ctx.file_paths.code) THEN {"code.py"} ELSE {})]

\* the site root after the entry directory is written into its collection
put_plot_dir(st, collection, plot_dir) ==
    [st EXCEPT !.collections =
                  [i \in 1..Len(@) |->
                     IF @[i].name = collection
                     THEN [@[i] EXCEPT !.entries = write_plot_dir(@, plot_dir)]
                     ELSE @[i]],
               !.entry = [collection |-> collection, name |-> plot_dir.name]]

\* SnapshotContext._handle_site_generation; the site root is writable
_handle_site_generation(st0, ctx) ==
    LET st == Step(st0, "site")
        collection == IF ctx.config.collection = NoCollection THEN "plots"
                      ELSE ctx.config.collection
        slug == sanitize_filename(ctx.config.title)
    IN  IF ~st.config_yml
        THEN Warn(st, "Site directory doesn't contain _config.yml")
        ELSE IF slug.raised
        THEN Catch(Raise([st EXCEPT !.collections = mkdir(@, collection)]),
                   "Failed to handle site generation")
        ELSE put_plot_dir([st EXCEPT !.collections = mkdir(@, collection)],
                          collection, plot_dir_of(st, ctx, slug.name))

(***************************************************************************)
(* snapshotplot/site_generator.py: the site root on disk.                  *)
(*                                                                         *)
(* A date is an instant, InstantsPerDay of them to a calendar day; the     *)
(* order of instants is the order of their ISO strings.  A directory or    *)
(* file name is a string; what the code does with the text of a name is    *)
(* tabulated for the names that occur.                                     *)
(***************************************************************************)
\* the instant of slot s of day d
At(d, s) == d * InstantsPerDay + s

\* str.split('_') of the entry directory names that occur
split(name) ==
    CASE name = "20240101_120000_first" -> <<"20240101", "120000", "first">>
      [] name = "20240102_090000_drop"  -> <<"20240102", "090000", "drop">>
      [] name = "my_scratch"            -> <<"my", "scratch">>
      [] name = "_drafts"               -> <<"", "drafts">>
      [] OTHER                          -> <<name>>

\* a test that finds no name reserved
startswith_underscore_never(name) == FALSE

\* name.startswith('_')
startswith_underscore(name) == split(name)[1] = ""

\* datetime.strptime(f"{date_str}_{time_str}", "%Y%m%d_%H%M%S"): ok is
\* FALSE where it raises ValueError
strptime(date_str, time_str) ==
    LET day == CASE date_str = "20240101" -> 0
                 [] date_str = "20240102" -> 1
                 [] OTHER -> -1
        slot == CASE time_str = "090000" -> 0
                  [] time_str = "120000" -> 1
                  [] OTHER -> -1
    IN  [ok |-> day >= 0 /\ slot >= 0, value |-> At(day, slot)]

\* str.title() of one word
capitalize(word) ==
    CASE word = "first"   -> "First"
      [] word = "drop"    -> "Drop"
      [] word = "my"      -> "My"
      [] word = "scratch" -> "Scratch"
      [] word = "bare"    -> "Bare"
      [] OTHER            -> word

\* the words of the directory name as they are
title_of_as_named(dir_name) == split(dir_name)

\* dir_name.replace('_', ' ').title(), as the sequence of its words
title_of(dir_name) ==
    LET words == split(dir_name)
    IN  [i \in 1..Len(words) |-> capitalize(words[i])]

\* the suffix of a file name
suffix(file) ==
    CASE file = "plot.png"  -> "png"
      [] file = "plot.py"   -> "py"
      [] file = "code.py"   -> "py"
      [] file = "index.md"  -> "md"
      [] file = "style.css" -> "css"
      [] OTHER              -> ""

\* plot_dir.glob('*.' + ext)
glob(plot_dir, ext) == {f \in plot_dir.files : suffix(f) = ext}

\* None, for a file name
NoFile == ""

\* an entry directory: its name, what its index.md holds (md), the title and
\* date of a well-formed header, and its other files.  md is
\*   "none"       there is no index.md
\*   "valid"      a header between two '---' lines that parses to a mapping
\*   "malformed"  a header between two '---' lines that is not valid YAML
\*   "empty"      two '---' lines with nothing between them
\*   "nofm"       text that does not start with '---', or has one '---' only
PlotDir(name, md, title, date, names) ==
    [name |-> name, md |-> md, title |-> title, date |-> date, files |-> names]

\* the entry directories a collection may hold
PlotDirs ==
    { PlotDir("20240101_120000_first", "valid", <<"First">>, At(0, 1),
              {"plot.png", "plot.py"}),
      PlotDir("second", "valid", <<"Second">>, At(0, 1), {"plot.png"}),
      PlotDir("broken", "malformed", <<>>, 0, {"plot.png"}),
      PlotDir("blank", "empty", <<>>, 0, {"plot.png"}),
      PlotDir("20240102_090000_drop", "none", <<>>, 0, {"plot.png", "plot.py"}),
      PlotDir("my_scratch", "none", <<>>, 0, {"plot.png"}),
      PlotDir("bare", "none", <<>>, 0, {"plot.py"}),
      PlotDir("_drafts", "valid", <<"Drafts">>, At(0, 0), {"plot.png"}) }

\* the keys of the _config.yml that `snapshotplot init` writes
InitConfigKeys ==
    {"title", "description", "author", "github_repo", "template", "build_dir",
     "collections", "defaults"}

\* SiteGenerator._load_config: the configuration as its set of keys
_load_config(config_exists) ==
    IF ~config_exists THEN {} ELSE InitConfigKeys

\* what _load_plot_metadata returns: status is "ok" for a mapping, "none"
\* for None, "raise" when it raises
Metadata(title, date, plot_image, code_file, auto_generated) ==
    [status |-> "ok", title |-> title, date |-> date,
     plot_image |-> plot_image, code_file |-> code_file,
     auto_generated |-> auto_generated]

None == [Metadata(<<>>, 0, NoFile, NoFile, FALSE) EXCEPT !.status = "none"]

Raises == [None EXCEPT !.status = "raise"]

\* a variant of _auto_generate_metadata that never reads the directory name
_auto_generate_metadata_from_clock(plot_dir, today) ==
    LET plot_files == glob(plot_dir, "png") \cup glob(plot_dir, "jpg")
        code_files == glob(plot_dir, "py") \cup glob(plot_dir, "ipynb")
    IN  IF plot_files = {}
        THEN None
        ELSE Metadata(title_of(plot_dir.name), today,
                      CHOOSE f \in plot_files : TRUE,
                      IF code_files # {} THEN CHOOSE f \in code_files : TRUE
                                         ELSE NoFile,
                      TRUE)

\* SiteGenerator._auto_generate_metadata; today is what datetime.now() reads
_auto_generate_metadata(plot_dir, today) ==
    LET plot_files == glob(plot_dir, "png") \cup glob(plot_dir, "jpg")
        code_files == glob(plot_dir, "py") \cup glob(plot_dir, "ipynb")
        dir_name == plot_dir.name
        timestamp_parts == split(dir_name)
        parsed == strptime(timestamp_parts[1], timestamp_parts[2])
        date_iso == IF Len(timestamp_parts) >= 2
                    THEN IF parsed.ok THEN parsed.value ELSE today
                    ELSE today
    IN  IF plot_files = {}
        THEN None
        ELSE Metadata(title_of(dir_name), date_iso,
                      CHOOSE f \in plot_files : TRUE,
                      IF code_files # {} THEN CHOOSE f \in code_files : TRUE
                                         ELSE NoFile,
                      TRUE)

\* SiteGenerator._load_plot_metadata
_load_plot_metadata(plot_dir, today) ==
    CASE plot_dir.md = "none"      -> _auto_generate_metadata(plot_dir, today)
      [] plot_dir.md = "valid"     ->
            Metadata(plot_dir.title, plot_dir.date,
                     IF "plot.png" \in plot_dir.files THEN "plot.png" ELSE NoFile,
                     IF "plot.py" \in plot_dir.files THEN "plot.py"
                     ELSE IF "code.py" \in plot_dir.files THEN "code.py"
                     ELSE NoFile,
                     FALSE)
      \* yaml.safe_load raises on the header
      [] plot_dir.md = "malformed" -> Raises
      \* yaml.safe_load returns None and front_matter['content'] = ... raises
      [] plot_dir.md = "empty"     -> Raises
      [] OTHER                     -> None

\* the two loops of get_all_plots and of _copy_assets: every entry
\* directory with its collection, in the order iterdir() yields them,
\* without the names that start with '_'
RECURSIVE iterdir(_)
iterdir(cs) ==
    IF cs = <<>>
    THEN <<>>
    ELSE LET c == Head(cs)
             kept == SelectSeq(c.entries,
                               LAMBDA d : ~startswith_underscore(d.name))
         IN  [i \in 1..Len(kept) |-> [collection |-> c.name, plot_dir |-> kept[i]]]
                 \o iterdir(Tail(cs))

\* a variant of sort_reverse that puts an entry before the entries of the
\* same date that were enumerated before it
sort_reverse_ties(plots) ==
    LET n == Len(plots)
        rank(i) == Cardinality({j \in 1..n : plots[j].date > plots[i].date})
                   + Cardinality({j \in 1..n : j > i /\ plots[j].date = plots[i].date})
                   + 1
    IN  [r \in 1..n |-> plots[CHOOSE i \in 1..n : rank(i) = r]]

\* plots.sort(key=lambda x: x.get('date', ''), reverse=True): a stable sort
sort_reverse(plots) ==
    LET n == Len(plots)
        rank(i) == Cardinality({j \in 1..n : plots[j].date > plots[i].date})
                   + Cardinality({j \in 1..n : j < i /\ plots[j].date = plots[i].date})
                   + 1
    IN  [r \in 1..n |-> plots[CHOOSE i \in 1..n : rank(i) = r]]

\* the plot record get_all_plots appends: the metadata with its collection
\* and slug
Plot(meta, collection, slug) ==
    [title |-> meta.title, date |-> meta.date, plot_image |-> meta.plot_image,
     code_file |-> meta.code_file, auto_generated |-> meta.auto_generated,
     collection |-> collection, slug |-> slug]

\* SiteGenerator.get_all_plots: raised when a _load_plot_metadata call
\* raised, else the plots, newest first
get_all_plots(cs, today) ==
    LET dirs == iterdir(cs)
        metas == [i \in 1..Len(dirs) |-> _load_plot_metadata(dirs[i].plot_dir, today)]
        loaded == SelectSeq([i \in 1..Len(dirs) |->
                                [meta |-> metas[i], at |-> dirs[i]]],
                            LAMBDA x : x.meta.status = "ok")
        plots == [i \in 1..Len(loaded) |->
                     Plot(loaded[i].meta, loaded[i].at.collection,
                          loaded[i].at.plot_dir.name)]
    IN  IF \E i \in 1..Len(dirs) : metas[i].status = "raise"
        THEN [raised |-> TRUE, plots |-> <<>>]
        ELSE [raised |-> FALSE, plots |-> sort_reverse(plots)]

(***************************************************************************)
(* snapshotplot/site_generator.py: the output tree and the pages.          *)
(*                                                                         *)
(* A file of the output tree is [path, content, fresh]: its path below the *)
(* output directory, what was written to it, and whether the build that    *)
(* ran last wrote it.  A page's content is what its template renders.      *)
(***************************************************************************)
\* the latest-entries limit of the index page: plots[:12]
LatestLimit == 12

\* SiteGenerator._date_format with '%B %d, %Y': the calendar day
_date_format(date) == date \div InstantsPerDay

\* what a template renders: the relative prefix of the page, the plots it
\* shows and its collection cards; for a copied file, the file it copies
Content(kind, base_path, src, shown, cards) ==
    [kind |-> kind, base_path |-> base_path, src |-> src,
     shown |-> shown, cards |-> cards]

\* _includes/plot-card.html
plot_card(plot) ==
    [collection |-> plot.collection, slug |-> plot.slug, title |-> plot.title,
     date |-> _date_format(plot.date), plot_image |-> plot.plot_image,
     code_file |-> NoFile]

\* the plot part of _layouts/plot.html
plot_detail(plot) ==
    [plot_card(plot) EXCEPT !.code_file = plot.code_file]

\* template.render: _includes/header.html iterates site.collections.items(),
\* which raises when the configuration has no 'collections' key
render(site, content) ==
    [raised |-> "collections" \notin site, html |-> content]

\* open(path, 'w').write(content), and shutil.copy2 to path
write(tree, path, content) ==
    {f \in tree : f.path # path}
        \cup {[path |-> path, content |-> content, fresh |-> TRUE]}

\* a variant of rmtree that removes nothing
rmtree_nothing(tree) == tree

\* shutil.rmtree(output_path) and output_path.mkdir(parents=True)
rmtree(tree) == {}

\* the files _copy_assets copies for the entry directories ds[1..n]
RECURSIVE copy_plot_files(_, _, _)
copy_plot_files(tree, ds, n) ==
    IF n = 0
    THEN tree
    ELSE LET d == ds[n]
             to == copy_plot_files(tree, ds, n - 1)
             copied == {file \in d.plot_dir.files : suffix(file) # "md"}
         IN  {f \in to : \A file \in copied :
                            f.path # <<d.collection, d.plot_dir.name, file>>}
                 \cup {[path |-> <<d.collection, d.plot_dir.name, file>>,
                        content |-> Content("file", <<>>,
                                            <<"collections", d.collection,
                                              d.plot_dir.name, file>>,
                                            <<>>, <<>>),
                        fresh |-> TRUE] : file \in copied}

\* SiteGenerator._copy_assets: the assets directory holds style.css
_copy_assets(cs, tree) ==
    LET assets == write(tree, <<"assets", "style.css">>,
                        Content("file", <<>>, <<"assets", "style.css">>,
                                <<>>, <<>>))
        ds == iterdir(cs)
    IN  copy_plot_files(assets, ds, Len(ds))

\* the grouping loop of _build_index and _build_collections: the
\* collections of the plots, in the order a dict keeps (first appearance)
group(plots) ==
    LET idx == [i \in 1..Len(plots) |-> i]
        firsts == SelectSeq(idx, LAMBDA i :
                     \A j \in 1..(i - 1) : plots[j].collection # plots[i].collection)
    IN  [k \in 1..Len(firsts) |-> plots[firsts[k]].collection]

\* the plots of one collection, in the order of plots
plots_of(plots, collection_name) ==
    SelectSeq(plots, LAMBDA p : p.collection = collection_name)

\* a slice plots[:n]
slice(plots, n) == SubSeq(plots, 1, IF Len(plots) < n THEN Len(plots) ELSE n)

\* the page for each of plots
cards_of(plots) == [i \in 1..Len(plots) |-> plot_card(plots[i])]

\* a build under way: the output tree so far, "ok" until something raises
\* and "error" from then on, and the plots get_all_plots returned
Building(tree, got) ==
    [tree |-> tree, result |-> IF got.raised THEN "error" ELSE "ok",
     plots |-> got.plots]

\* an exception leaves the operation; the steps after it do not run
Raised(b) == [b EXCEPT !.result = "error"]

\* the page is written when the template rendered, else the exception of
\* the render propagates; nothing runs after an exception
write_page(b, path, html) ==
    IF b.result # "ok"
    THEN b
    ELSE IF html.raised
    THEN Raised(b)
    ELSE [b EXCEPT !.tree = write(b.tree, path, html.html)]

\* an index page rendered with the prefix of a gallery page
_build_index_one_up(site, b) ==
    IF b.result # "ok"
    THEN b
    ELSE write_page(b, <<"index.html">>,
            render(site,
                   Content("index", <<"..">>, <<>>,
                           cards_of(slice(b.plots, LatestLimit)),
                           [k \in 1..Len(group(b.plots)) |->
                               <<group(b.plots)[k],
                                 Len(plots_of(b.plots, group(b.plots)[k]))>>])))

\* SiteGenerator._build_index
_build_index(site, b) ==
    IF b.result # "ok"
    THEN b
    ELSE write_page(b, <<"index.html">>,
            render(site,
                   Content("index", <<>>, <<>>,
                           cards_of(slice(b.plots, LatestLimit)),
                           [k \in 1..Len(group(b.plots)) |->
                               <<group(b.plots)[k],
                                 Len(plots_of(b.plots, group(b.plots)[k]))>>])))

\* the loop of _build_collections over collections.items(), first n items
RECURSIVE build_collection_pages(_, _, _, _)
build_collection_pages(site, b, names, n) ==
    IF n = 0 \/ b.result # "ok"
    THEN b
    ELSE write_page(build_collection_pages(site, b, names, n - 1),
                    <<names[n], "index.html">>,
                    render(site,
                           Content("gallery", <<"..">>, <<>>,
                                   cards_of(plots_of(b.plots, names[n])),
                                   <<>>)))

\* SiteGenerator._build_collections
_build_collections(site, b) ==
    build_collection_pages(site, b, group(b.plots), Len(group(b.plots)))

\* SiteGenerator._build_plot_pages, for plots[1..n]
RECURSIVE _build_plot_pages(_, _, _)
_build_plot_pages(site, b, n) ==
    IF n = 0 \/ b.result # "ok"
    THEN b
    ELSE write_page(_build_plot_pages(site, b, n - 1),
                    <<b.plots[n].collection, b.plots[n].slug, "index.html">>,
                    render(site,
                           Content("plot", <<"..", "..">>, <<>>,
                                   <<plot_detail(b.plots[n])>>, <<>>)))

\* the steps of build after the plots are loaded
build_pages(site, b) ==
    _build_plot_pages(site, _build_collections(site, _build_index(site, b)),
                      Len(b.plots))

\* SiteGenerator(site_dir).build(output_dir): the tree it leaves, whether it
\* returned ("ok") or raised ("error"), and the plots it loaded
build(config_exists, cs, tree, today) ==
    build_pages(_load_config(config_exists),
                Building(_copy_assets(cs, rmtree(tree)),
                         get_all_plots(cs, today)))

(***************************************************************************)
(* The site root's owner: builds the site through the library or the       *)
(* command line, removes entries, and other programs drop files into the   *)
(* output directory.                                                       *)
(***************************************************************************)
\* the sequences over S of length at most n
SeqsOf(S, n) == UNION {[1..k -> S] : k \in 0..n}

\* a directory holds one entry of a name
NoRepeat(ds) == \A i, j \in 1..Len(ds) : i # j => ds[i].name # ds[j].name

\* a site root with collections a and b, empty
EmptySite ==
    <<[name |-> "a", entries |-> <<>>], [name |-> "b", entries |-> <<>>]>>

\* nothing has been built
InitOutput ==
    /\ docs = {}
    /\ all_plots = <<>>
    /\ result = "none"
    /\ lastOp = "none"
    /\ rebuilt = FALSE
    /\ stale = FALSE

\* the site root of the other specifications: configured, without entries
InitNoSite ==
    /\ config_yml = TRUE
    /\ collections = EmptySite
    /\ InitOutput

\* any site root of at most MaxEntries entry directories, with or without
\* its _config.yml
InitSite ==
    /\ config_yml \in BOOLEAN
    /\ \E ea \in SeqsOf(PlotDirs, MaxEntries) :
         \E eb \in SeqsOf(PlotDirs, MaxEntries - Len(ea)) :
            /\ NoRepeat(ea)
            /\ NoRepeat(eb)
            /\ collections = <<[name |-> "a", entries |-> ea],
                               [name |-> "b", entries |-> eb]>>
    /\ InitOutput

\* the files of a tree, none of them written by the build about to run
Aged(tree) == {[f EXCEPT !.fresh = FALSE] : f \in tree}

Paths(tree) == {f.path : f \in tree}

\* a build that leaves `built` in the output directory has run
BuiltOutput(built) ==
    /\ docs' = built.tree
    /\ all_plots' = built.plots
    /\ result' = built.result
    /\ rebuilt' = (lastOp = "build" /\ result = "ok")
    /\ stale' = (Paths(docs) \ Paths({f \in built.tree : f.fresh}) # {})
    /\ lastOp' = "build"

\* a build into the output directory docs
Built(built) ==
    /\ BuiltOutput(built)
    /\ UNCHANGED <<config_yml, collections>>

\* SiteGenerator(site_dir).build(output_dir), as a program using the
\* library calls it and as SnapshotContext._auto_build calls it; today is
\* what datetime.now() reads during the build
Build ==
    \E today \in 0..MaxNow :
        Built(build(config_yml, collections, Aged(docs), today))

\* cli.build: `snapshotplot build`, which looks for _config.yml first
cli_build ==
    IF ~config_yml
    THEN /\ lastOp' = "cli_build"
         /\ result' = "refused"
         /\ rebuilt' = FALSE
         /\ stale' = FALSE
         /\ UNCHANGED <<config_yml, collections, docs, all_plots>>
    ELSE Build

\* something other than a build happened last
Edited ==
    /\ lastOp' = "edit"
    /\ result' = "none"
    /\ rebuilt' = FALSE
    /\ stale' = FALSE

\* the owner deletes entry directory i of collection c
RemoveEntry ==
    \E c \in 1..Len(collections) : \E i \in 1..Len(collections[c].entries) :
        LET es == collections[c].entries
        IN  /\ collections' =
                 [collections EXCEPT ![c].entries =
                     SubSeq(es, 1, i - 1) \o SubSeq(es, i + 1, Len(es))]
            /\ Edited
            /\ UNCHANGED <<config_yml, docs, all_plots>>

\* files another program may leave in the output directory
StrayPaths == {<<"notes.txt">>}

Stray ==
    \E p \in StrayPaths :
        /\ ~\E f \in docs : f.path = p /\ f.content.kind = "stray"
        /\ docs' = {f \in docs : f.path # p}
                    \cup {[path |-> p,
                           content |-> Content("stray", <<>>, <<>>, <<>>, <<>>),
                           fresh |-> FALSE]}
        /\ Edited
        /\ UNCHANGED <<config_yml, collections, all_plots>>

\* the directories below the site root that build is given as output_dir
OutputDirs == {"docs", "collections"}

\* SiteGenerator('.').build(output_dir): what it leaves of the collections
\* directory, and the build.  Given collections, rmtree removes the entry
\* directories and copytree makes collections/assets, which the two walks
\* then take for a collection without entries
build_to(config_exists, cs, tree, today, output_dir) ==
    IF output_dir = "collections"
    THEN LET wiped == <<[name |-> "assets", entries |-> <<>>]>>
         IN  [collections |-> wiped,
              built |-> build(config_exists, wiped, {}, today)]
    ELSE [collections |-> cs, built |-> build(config_exists, cs, tree, today)]

\* `snapshotplot build --output <output_dir>`, or build(output_dir) called
\* by a program, in the site root
BuildTo ==
    \E output_dir \in OutputDirs, today \in 0..MaxNow :
        LET to == build_to(config_yml, collections, Aged(docs), today, output_dir)
        IN  /\ collections' = to.collections
            /\ docs' = IF output_dir = "docs" THEN to.built.tree ELSE docs
            /\ all_plots' = to.built.plots
            /\ result' = to.built.result
            /\ rebuilt' = (lastOp = "build" /\ result = "ok")
            /\ stale' = (output_dir = "docs"
                         /\ Paths(docs) \ Paths({f \in to.built.tree : f.fresh}) # {})
            /\ lastOp' = "build"
            /\ UNCHANGED config_yml

(***************************************************************************)
(* snapshotplot/snapshot.py: the steps of a capture after its three files, *)
(* and the decorator.                                                      *)
(***************************************************************************)
\* f"{self.timestamp}_{sanitize_filename(...)}": the name of an entry
\* directory as one string
dir_name(name) == ToString(<<name.token, name.title>>)

\* the entry directory a capture wrote, as the site builder finds it on
\* disk: its name as one string, and its index.md as _load_plot_metadata
\* reads it
read_plot_dir(e) ==
    LET m == load_front_matter(e.index_md)
    IN  PlotDir(dir_name(e.name),
                CASE m.status = "ok" -> "valid"
                  [] m.status = "raise" -> "empty"
                  [] OTHER -> "nofm",
                m.title, m.date, e.files)

\* the collections directory as the site builder finds it
read_collections(cs) ==
    [i \in 1..Len(cs) |->
        [name |-> cs[i].name,
         entries |-> [j \in 1..Len(cs[i].entries) |->
                         read_plot_dir(cs[i].entries[j])]]]

\* no build was run
NotBuilt == [ran |-> FALSE, result |-> "none", plots |-> <<>>]

\* subprocess.run(['git', ...], cwd=site_dir, check=True): the commit is
\* made, or CalledProcessError is raised when git fails
git_commit(st, what) ==
    IF st.git THEN [st EXCEPT !.commits = Append(@, what)] ELSE Raise(st)

\* SnapshotContext._auto_commit: git add . and git commit in the site root
_auto_commit(st0, ctx) ==
    Catch(git_commit(Step(st0, "commit"), "site"), "Failed to auto-commit")

\* generator.build() has left b: the output directory is as the build left
\* it, and an exception of the build becomes a warning
generator_build(st, b) ==
    Catch([st EXCEPT !.docs = b.tree,
                     !.built = [ran |-> TRUE, result |-> b.result,
                                plots |-> b.plots],
                     !.raised = (b.result = "error")],
          "Failed to auto-build site")

\* SnapshotContext._auto_build: SiteGenerator(site_dir).build()
_auto_build(st0, ctx) ==
    generator_build(Step(st0, "build"),
                    build(st0.config_yml, read_collections(st0.collections),
                          Aged(st0.docs), st0.now))

\* SnapshotContext._auto_deploy: git add docs/, git commit and git push in
\* the site root
_auto_deploy(st0, ctx) ==
    Catch(git_commit(Step(st0, "deploy"), "docs"), "Failed to auto-deploy")

\* the three optional steps that end _create_snapshot, each under its
\* "if self.config.get(...)"
if_auto_commit(st, ctx) ==
    IF ctx.config.auto_commit THEN _auto_commit(st, ctx) ELSE st
if_auto_build(st, ctx) ==
    IF ctx.config.auto_build THEN _auto_build(st, ctx) ELSE st
if_auto_deploy(st, ctx) ==
    IF ctx.config.auto_deploy THEN _auto_deploy(st, ctx) ELSE st

\* SnapshotContext._create_snapshot
_create_snapshot(st0, ctx, fig, fail) ==
    LET s1 == _save_source_code(st0, ctx, fail)
        s2 == IF s1.raised THEN [st |-> s1, plot_saved |-> FALSE]
              ELSE _save_plot(s1, ctx, fig, fail)
        s3 == IF s2.st.raised THEN s2.st
              ELSE _create_html_documentation(s2.st, ctx, s2.plot_saved, fail)
        s4 == IF s3.raised \/ ~(ctx.config.site \/ ctx.config.collection # NoCollection)
              THEN s3
              ELSE _handle_site_generation(s3, ctx)
    IN  if_auto_deploy(if_auto_build(if_auto_commit(s4, ctx), ctx), ctx)

\* SnapshotContext.__exit__: a failure of _create_snapshot becomes a warning;
\* returns None, so an exception of the body is not suppressed
SnapshotContext_exit(st0, ctx, fig, fail) ==
    Catch(_create_snapshot(st0, ctx, fig, fail), "Snapshot creation failed")

\* a wrapper that runs the function and drops its result
wrapper_no_return(st0, ctx, body, fail) ==
    LET st == SnapshotContext_exit(st0, ctx, body.fig, fail)
    IN  [st |-> st,
         raised |-> IF st.raised THEN "snapshot"
                    ELSE IF body.raises THEN "body" ELSE "none",
         ret |-> NoValue]

\* a wrapper whose context manager swallows the function's exception, as an
\* __exit__ that returns True would
wrapper_swallows(st0, ctx, body, fail) ==
    LET st == SnapshotContext_exit(st0, ctx, body.fig, fail)
    IN  [st |-> st,
         raised |-> IF st.raised THEN "snapshot" ELSE "none",
         ret |-> IF st.raised \/ body.raises THEN NoValue ELSE body.ret]

\* SnapshotDecorator.__call__'s wrapper, after __enter__: runs the function
\* inside the context and returns its result.  body is the function's
\* outcome: [raises, ret, fig]
wrapper(st0, ctx, body, fail) ==
    LET st == SnapshotContext_exit(st0, ctx, body.fig, fail)
    IN  [st |-> st,
         raised |-> IF st.raised THEN "snapshot"
                    ELSE IF body.raises THEN "body" ELSE "none",
         ret |-> IF st.raised \/ body.raises THEN NoValue ELSE body.ret]

\* the failures a capture can meet
Failures == [code : BOOLEAN, plot : BOOLEAN, html : BOOLEAN]

NoCapture ==
    [n |-> 0, filename |-> NoName, timestamp |-> NoToken, wrote |-> {},
     entry |-> NoEntry, config |-> DefaultConfig, today |-> 0,
     body |-> [raises |-> FALSE, ret |-> NoValue, fig |-> 0],
     raised |-> "none", ret |-> NoValue, warnings |-> <<>>, steps |-> <<>>,
     commits |-> <<>>, built |-> NotBuilt]

\* what is kept of a capture once a later one has been made
Earlier(c) ==
    [NoCapture EXCEPT !.n = c.n, !.filename = c.filename,
                      !.timestamp = c.timestamp, !.wrote = c.wrote,
                      !.entry = c.entry]

\* no capture has been made
InitCapture ==
    /\ files = {}
    /\ captures = 0
    /\ prev = NoCapture
    /\ last = NoCapture
    /\ call_stack = [frames |-> MaxFrames, function_name |-> "plot_a",
                     in_globals |-> TRUE, getsourcelines |-> TRUE, file |-> TRUE]
    /\ calling_info = NotCalled

\* the wrapper has returned or raised (out): what the capture left on disk
\* and what its caller saw
Returned(config, caller, body, timestamp, today, out) ==
    /\ files' = out.st.files
    /\ collections' = out.st.collections
    /\ captures' = captures + 1
    /\ prev' = Earlier(last)
    /\ last' = [n |-> captures + 1, filename |-> caller.filename,
                timestamp |-> timestamp,
                wrote |-> {f \in out.st.files : f.path \in out.st.written},
                entry |-> out.st.entry, config |-> config, today |-> today,
                body |-> body,
                raised |-> out.raised, ret |-> out.ret,
                warnings |-> out.st.warnings, steps |-> out.st.steps,
                commits |-> out.st.commits, built |-> out.st.built]
    /\ IF out.st.built.ran
       THEN BuiltOutput([tree |-> out.st.docs, result |-> out.st.built.result,
                         plots |-> out.st.built.plots])
       ELSE UNCHANGED outVars

\* one call of a function decorated with @snapshot(...): __enter__ (which
\* takes the token from get_timestamp, generating one when the cache is
\* empty: dt is the clock reading that ends generate_timestamp's loop), the
\* function's body, __exit__ (today is the clock's reading at its site step,
\* git_ok whether git's commands succeed in the site root)
Call(config, caller, body, dt, today, git_ok) ==
    LET g0 == TimestampModule
        r == generate_timestamp(g0, dt)
        cached == g0.ts # NoToken
        timestamp == IF cached THEN g0.ts ELSE r.ret
        ctx == SnapshotContext_enter(config, caller, timestamp)
        st0 == [files |-> files, written |-> {}, warnings |-> <<>>,
                steps |-> <<>>, raised |-> FALSE,
                config_yml |-> config_yml, collections |-> collections,
                entry |-> NoEntry, now |-> today,
                docs |-> docs, built |-> NotBuilt,
                git |-> git_ok, commits |-> <<>>]
    IN  /\ Returned(config, caller, body, timestamp, today,
                    wrapper(st0, ctx, body, io))
        /\ IF cached
           THEN /\ dt = 0
                /\ UNCHANGED <<GLOBAL_TIMESTAMP, GLOBAL_DATETIME,
                               LAST_EMITTED_TIMESTAMP, emitted, epochTokens>>
           ELSE /\ r.done
                /\ Len(emitted) < MaxEmit
                /\ SetTimestampModule(r.g)
                /\ emitted' = Append(emitted, r.ret)
                /\ epochTokens' = epochTokens \cup {r.ret}
        /\ UNCHANGED <<now, tsCall, spins, beforeReset, io, call_stack, calling_info>>

\* a call of a function decorated with @snapshot()
Capture ==
    /\ tsCall = "idle"
    /\ captures < MaxCaptures
    /\ \E caller \in Callers, raises \in BOOLEAN,
          ret \in RetVals, draws \in BOOLEAN, dt \in 0..MaxTick :
        /\ raises => ret = 1
        /\ Call(DefaultConfig, caller,
                [raises |-> raises,
                 ret |-> IF raises THEN NoValue ELSE ret,
                 fig |-> IF draws THEN captures + 1 ELSE 0],
                dt, 0, TRUE)

\* the tag lists given to @snapshot(tags=...)
TagLists == {<<>>, <<<<"x", "---", "y">>>>}

\* the options of the captures made into collection a of the site root
SiteConfigs ==
    {Config(title, TRUE, collection, tags) :
        title \in Titles \cup {NoTitle}, collection \in {"a"},
        tags \in TagLists}

\* the function that makes them
SiteCaller == CHOOSE c \in Callers : c.function_name = "plot_a"

\* a call of that function, decorated with @snapshot(site=..., collection=...,
\* title=..., tags=...): it draws a figure and returns normally
SiteCapture ==
    /\ tsCall = "idle"
    /\ captures < MaxCaptures
    /\ \E config \in SiteConfigs, dt \in 0..MaxTick, today \in {0, MaxNow} :
        Call(config, SiteCaller,
             [raises |-> FALSE, ret |-> 1, fig |-> captures + 1],
             dt, today, TRUE)

\* the options of the captures that go on to commit, build or deploy
AutoConfigs ==
    {Auto(Config(title, TRUE, "a", <<>>), commit, rebuild, deploy) :
        title \in Titles \cup {NoTitle},
        commit \in BOOLEAN, rebuild \in BOOLEAN, deploy \in BOOLEAN}

\* a call of a function decorated with @snapshot(site=..., collection=...,
\* auto_commit=..., auto_build=..., auto_deploy=...)
AutoCapture ==
    /\ tsCall = "idle"
    /\ captures < MaxAutoCaptures
    /\ \E config \in AutoConfigs, dt \in 0..MaxTick, git_ok \in BOOLEAN :
        Call(config, SiteCaller,
             [raises |-> FALSE, ret |-> 1, fig |-> captures + 1],
             dt, 0, git_ok)

(***************************************************************************)
(* snapshotplot/publisher.py: publishing a capture directory to the cloud  *)
(* service.                                                                *)
(*                                                                         *)
(* A run of publish_snapshot is [log, raised, returned]: the requests it   *)
(* made in order, each with its outcome, the exception that left it        *)
(* ("none" when it returned) and whether it returned the URLs.             *)
(***************************************************************************)
\* what a run can meet: the capture directory and its files, and how the
\* service answers each request
Environments ==
    [dir : BOOLEAN, code_file : BOOLEAN, plot_file : BOOLEAN,
     publish : BOOLEAN, code_url : BOOLEAN, plot_url : BOOLEAN,
     put_code : BOOLEAN, put_plot : BOOLEAN, finalize : BOOLEAN]

\* a request with its outcome is added to the log
Sent(p, request, ok) == [p EXCEPT !.log = Append(@, [request |-> request, ok |-> ok])]
Throw(p, exception) == [p EXCEPT !.raised = exception]

\* request_signed_urls: one POST; raise_for_status raises on an error answer
request_signed_urls(p, env) ==
    IF env.publish THEN Sent(p, "publish", TRUE)
    ELSE Throw(Sent(p, "publish", FALSE), "HTTPError")

\* upload_file_signed: one PUT of the file; raise_for_status raises on an
\* error answer
upload_file_signed(p, file, ok) ==
    IF ok THEN Sent(p, file, TRUE)
    ELSE Throw(Sent(p, file, FALSE), "HTTPError")

\* a finalize_publish that lets the error answer out
finalize_publish_fatal(p, env) ==
    IF env.finalize THEN Sent(p, "finalize", TRUE)
    ELSE Throw(Sent(p, "finalize", FALSE), "HTTPError")

\* finalize_publish: one POST; a requests.RequestException is passed over
finalize_publish(p, env) == Sent(p, "finalize", env.finalize)

\* publish_snapshot(snapshot_dir, config)
publish_snapshot(env) ==
    LET p0 == [log |-> <<>>, raised |-> "none", returned |-> FALSE]
        \* discover_snapshot_files needs the directory and its *_code.py
        p1 == IF ~env.dir \/ ~env.code_file
              THEN Throw(p0, "FileNotFoundError")
              ELSE LET r == request_signed_urls(p0, env)
                   IN  IF r.raised # "none" THEN Throw(r, "RuntimeError") ELSE r
        p2 == IF p1.raised = "none" /\ env.code_url
              THEN upload_file_signed(p1, "code", env.put_code)
              ELSE p1
        p3 == IF p2.raised = "none" /\ env.plot_url /\ env.plot_file
              THEN upload_file_signed(p2, "plot", env.put_plot)
              ELSE p2
        p4 == IF p3.raised = "none" THEN finalize_publish(p3, env) ELSE p3
    IN  [p4 EXCEPT !.returned = (p4.raised = "none")]

\* nothing was published
NotPublished ==
    [env |-> [dir |-> FALSE, code_file |-> FALSE, plot_file |-> FALSE,
              publish |-> FALSE, code_url |-> FALSE, plot_url |-> FALSE,
              put_code |-> FALSE, put_plot |-> FALSE, finalize |-> FALSE],
     n |-> 0, log |-> <<>>, raised |-> "none", returned |-> FALSE]

\* publish_snapshot is called on a capture directory
PublishSnapshot ==
    \E env \in Environments :
        LET p == publish_snapshot(env)
        IN  /\ published' = [env |-> env, n |-> 1, log |-> p.log,
                             raised |-> p.raised, returned |-> p.returned]
            /\ UNCHANGED <<site_config, index_mds, declared>>

(***************************************************************************)
(* snapshotplot/cli.py: the site root's _config.yml and the collections    *)
(* declared in it.                                                         *)
(*                                                                         *)
(* A configuration is a mapping of python values; _config.yml holds the    *)
(* YAML document that yaml.dump writes for it, a mapping of scalars that   *)
(* are plain or quoted.                                                    *)
(***************************************************************************)
\* python values: a str (its stretches of characters), None, True
Str(s) == [type |-> "str", s |-> s]
PyNone == [type |-> "NoneType", s |-> <<>>]
PyTrue == [type |-> "bool", s |-> <<"True">>]

\* a scalar of a YAML document: its characters, plain or in quotes
Plain(t) == [style |-> "plain", text |-> t]
Quoted(t) == [style |-> "quoted", text |-> t]

\* yaml's resolver: what a plain scalar of these characters is read as
resolve_scalar(t) ==
    IF t = <<"null">> THEN PyNone
    ELSE IF t = <<"true">> THEN PyTrue
    ELSE Str(t)

\* a representer that writes every str plain
represent_plain(v) ==
    IF v = PyNone THEN Plain(<<"null">>)
    ELSE IF v = PyTrue THEN Plain(<<"true">>)
    ELSE Plain(v.s)

\* yaml's representer: a str is written plain unless a plain scalar of its
\* characters would be read as something else, and then in quotes
represent(v) ==
    IF v = PyNone THEN Plain(<<"null">>)
    ELSE IF v = PyTrue THEN Plain(<<"true">>)
    ELSE IF resolve_scalar(v.s) # v THEN Quoted(v.s)
    ELSE Plain(v.s)

\* yaml's constructor: a quoted scalar is a str
construct(node) ==
    IF node.style = "quoted" THEN Str(node.text) ELSE resolve_scalar(node.text)

\* the scalar keys of a site configuration
ConfigKeys == {"title", "description", "author", "github_repo", "template", "build_dir"}

\* yaml.dump(config, f, default_flow_style=False) of a site configuration:
\* its scalar keys, the collections mapping, the defaults mapping
dump_config(config) ==
    [scalars |-> [k \in ConfigKeys |-> represent(config.scalars[k])],
     collections |-> {[name |-> c.name,
                       title |-> represent(c.title),
                       description |-> represent(c.description),
                       output |-> represent(c.output)] : c \in config.collections},
     defaults |-> [layout |-> represent(config.defaults.layout),
                   author |-> represent(config.defaults.author)]]

\* yaml.safe_load(f) of _config.yml
safe_load_config(document) ==
    [scalars |-> [k \in ConfigKeys |-> construct(document.scalars[k])],
     collections |-> {[name |-> c.name,
                       title |-> construct(c.title),
                       description |-> construct(c.description),
                       output |-> construct(c.output)] : c \in document.collections},
     defaults |-> [layout |-> construct(document.defaults.layout),
                   author |-> construct(document.defaults.author)]]

\* cli.init: the configuration that `snapshotplot init site` writes, with
\* --title and --github-repo given or not
init_config(title, github_repo) ==
    [scalars |-> [k \in ConfigKeys |->
                    CASE k = "title" ->
                           IF title # PyNone THEN title ELSE Str(<<"Site", " Plots">>)
                      [] k = "description" ->
                           Str(<<"Data science plots and analysis for ", "site">>)
                      [] k = "author" -> Str(<<"Research Team">>)
                      [] k = "github_repo" -> github_repo
                      [] k = "template" -> Str(<<"scientific">>)
                      [] k = "build_dir" -> Str(<<"docs">>)],
     collections |-> {},
     defaults |-> [layout |-> Str(<<"plot">>), author |-> Str(<<"Research Team">>)]]

\* the names, titles and descriptions given to `snapshotplot collection
\* create`; a title that YAML would read as a boolean is among them
CollectionNames == {"a", "exp-1"}
CollectionTitles == {PyNone, Str(<<"My Title">>), Str(<<"true">>)}
Descriptions == {PyNone, Str(<<"null">>)}

\* name.replace('-', ' ').title() for the names that occur
default_collection_title(name) ==
    IF name = "exp-1" THEN <<"Exp 1">> ELSE <<"A">>

\* the site root as create_collection sees it
SiteRoot ==
    [config_yml |-> config_yml, site_config |-> site_config,
     collections |-> collections, index_mds |-> index_mds]

\* cli.create_collection: `snapshotplot collection create name`, run in the
\* site root at the instant `created`
create_collection(site, name, title, description, created) ==
    IF ~site.config_yml
    THEN site
    ELSE LET metadata ==
                 [title |-> IF title # PyNone THEN title
                            ELSE Str(default_collection_title(name)),
                  description |-> IF description # PyNone THEN description
                                  ELSE Str(<<"Plot collection for ", name>>),
                  tags |-> <<>>,
                  created |-> created,
                  layout |-> "gallery"]
             config == safe_load_config(site.site_config)
             declared_in == [name |-> name,
                             title |-> metadata.title,
                             description |-> metadata.description,
                             output |-> PyTrue]
         IN  [site EXCEPT
                !.collections = mkdir(@, name),
                !.index_mds = {f \in @ : f.collection # name}
                                 \cup {[collection |-> name, metadata |-> metadata]},
                !.site_config =
                    dump_config([config EXCEPT
                        !.collections = {c \in @ : c.name # name}
                                           \cup {declared_in}])]

\* nothing was declared
NotDeclared == [name |-> "", title |-> PyNone, description |-> PyNone]

\* `snapshotplot collection create` is run in the site root
CreateCollection ==
    \E name \in CollectionNames, title \in CollectionTitles,
       description \in Descriptions, created \in {0, MaxNow} :
        LET after == create_collection(SiteRoot, name, title, description, created)
        IN  /\ collections' = after.collections
            /\ index_mds' = after.index_mds
            /\ site_config' = after.site_config
            /\ declared' = [name |-> name, title |-> title,
                            description |-> description]
            /\ lastOp' = "create_collection"
            /\ UNCHANGED <<config_yml, docs, all_plots, result, rebuilt, stale>>

\* the site root as `snapshotplot init` leaves it
InitTools ==
    /\ site_config = dump_config(init_config(PyNone, PyNone))
    /\ index_mds = {}
    /\ declared = NotDeclared
    /\ published = NotPublished

(***************************************************************************)
(* SpecSite: a site root and its output directory.                         *)
(***************************************************************************)
InitSiteRoot ==
    /\ InitTimestampModule
    /\ InitTools
    /\ now = 0
    /\ InitCapture
    /\ io = [code |-> FALSE, plot |-> FALSE, html |-> FALSE]
    /\ InitSite

NextSite ==
    \/ Build /\ UNCHANGED <<timeVars, capVars, toolVars>>
    \/ cli_build /\ UNCHANGED <<timeVars, capVars, toolVars>>
    \/ RemoveEntry /\ UNCHANGED <<timeVars, capVars, toolVars>>
    \/ Stray /\ UNCHANGED <<timeVars, capVars, toolVars>>

SpecSite == InitSiteRoot /\ [][NextSite]_vars

(***************************************************************************)
(* SpecTime: the timestamp module called by its users, and the clock.      *)
(***************************************************************************)
InitTime ==
    /\ InitTimestampModule
    /\ InitTools
    /\ now \in 0..MaxTick
    /\ InitCapture
    /\ io = [code |-> FALSE, plot |-> FALSE, html |-> FALSE]
    /\ InitNoSite

NextTime ==
    \/ get_current_timestamp /\ UNCHANGED <<capVars, siteVars, toolVars>>
    \/ get_current_datetime /\ UNCHANGED <<capVars, siteVars, toolVars>>
    \/ GenerateLoop /\ UNCHANGED <<capVars, siteVars, toolVars>>
    \/ ResetTimestamp /\ UNCHANGED <<capVars, siteVars, toolVars>>
    \/ ClockStep /\ UNCHANGED <<capVars, siteVars, toolVars>>

SpecTime == InitTime /\ [][NextTime]_vars

\* the pass of the loop that reads a millisecond other than the last token's
\* and returns
LoopReturns == GenerateLoop /\ tsCall' = "idle" /\ UNCHANGED <<capVars, siteVars, toolVars>>

\* the clock comes to read a millisecond other than the last token's
ClockLeavesMillisecond ==
    ClockStep /\ Strftime(now') # LAST_EMITTED_TIMESTAMP /\ UNCHANGED <<capVars, siteVars, toolVars>>

\* the loop has no exit but its return and sleeps a millisecond between two
\* readings: while the clock keeps coming to a millisecond other than the
\* last token's, some pass reads it there
SpecTimeFair ==
    /\ InitTime
    /\ [][NextTime]_vars
    /\ WF_vars(ClockLeavesMillisecond)
    /\ SF_vars(LoopReturns)

(***************************************************************************)
(* SpecCapture: a process that makes captures through the decorator, and   *)
(* may call reset_timestamp between them.                                  *)
(***************************************************************************)
NextCapture ==
    \/ Capture /\ UNCHANGED <<config_yml, toolVars>>
    \/ ResetTimestamp /\ UNCHANGED <<capVars, siteVars, toolVars>>

\* the clock readings a capture sees are inputs of Capture; the output
\* directory is writable or not, the image backend works or not, the page
\* renders or not: fixed for the run
InitCaptures ==
    /\ InitTimestampModule
    /\ InitTools
    /\ now = 0
    /\ InitCapture
    /\ io \in Failures
    /\ InitNoSite

SpecCapture == InitCaptures /\ [][NextCapture]_vars

(***************************************************************************)
(* SpecPublish: a process that makes captures into the site root through   *)
(* the decorator, and may call reset_timestamp between them.               *)
(***************************************************************************)
NextPublish ==
    \/ SiteCapture /\ UNCHANGED <<config_yml, toolVars>>
    \/ ResetTimestamp /\ UNCHANGED <<capVars, siteVars, toolVars>>

\* the site root has its _config.yml or not; nothing fails to be written
InitPublish ==
    /\ InitTimestampModule
    /\ InitTools
    /\ now = 0
    /\ InitCapture
    /\ io = [code |-> FALSE, plot |-> FALSE, html |-> FALSE]
    /\ config_yml \in BOOLEAN
    /\ collections = EmptySite
    /\ InitOutput

SpecPublish == InitPublish /\ [][NextPublish]_vars

(***************************************************************************)
(* SpecCalling: get_calling_info called, at any depth, on any call stack.  *)
(***************************************************************************)
NextCalling ==
    GetCallingInfo /\ UNCHANGED <<timeVars, files, captures, io, prev, last, siteVars, toolVars>>

InitCallers ==
    /\ InitTimestampModule
    /\ InitTools
    /\ now = 0
    /\ files = {}
    /\ captures = 0
    /\ prev = NoCapture
    /\ last = NoCapture
    /\ io = [code |-> FALSE, plot |-> FALSE, html |-> FALSE]
    /\ InitCalling
    /\ InitNoSite

SpecCalling == InitCallers /\ [][NextCalling]_vars

(***************************************************************************)
(* SpecBuildArg: build is given the output directory its caller names.     *)
(***************************************************************************)
NextBuildArg == BuildTo /\ UNCHANGED <<timeVars, capVars, toolVars>>

SpecBuildArg == InitSiteRoot /\ [][NextBuildArg]_vars

(***************************************************************************)
(* SpecCli: `snapshotplot collection create` run again and again in a site *)
(* root that `snapshotplot init` made, with or without its _config.yml.    *)
(***************************************************************************)
InitCli ==
    /\ InitTimestampModule
    /\ now = 0
    /\ InitCapture
    /\ io = [code |-> FALSE, plot |-> FALSE, html |-> FALSE]
    /\ config_yml \in BOOLEAN
    /\ collections = <<>>
    /\ InitOutput
    /\ \E title \in {PyNone, Str(<<"true">>)},
          github_repo \in {PyNone, Str(<<"user/repo">>)} :
         site_config = dump_config(init_config(title, github_repo))
    /\ index_mds = {}
    /\ declared = NotDeclared
    /\ published = NotPublished

NextCli == CreateCollection /\ UNCHANGED <<timeVars, capVars, published>>

SpecCli == InitCli /\ [][NextCli]_vars

(***************************************************************************)
(* SpecCloud: publish_snapshot called on a capture directory, against a    *)
(* service that answers or fails each request.                             *)
(***************************************************************************)
InitCloud ==
    /\ InitTimestampModule
    /\ InitTools
    /\ now = 0
    /\ InitCapture
    /\ io = [code |-> FALSE, plot |-> FALSE, html |-> FALSE]
    /\ InitNoSite

NextCloud == PublishSnapshot /\ UNCHANGED <<timeVars, capVars, siteVars>>

SpecCloud == InitCloud /\ [][NextCloud]_vars

(***************************************************************************)
(* SpecAuto: a capture into the site root that goes on to commit, build    *)
(* and deploy.                                                             *)
(***************************************************************************)
NextAuto ==
    \/ AutoCapture /\ UNCHANGED <<config_yml, toolVars>>
    \/ ResetTimestamp /\ UNCHANGED <<capVars, siteVars, toolVars>>

SpecAuto == InitPublish /\ [][NextAuto]_vars

(***************************************************************************)
(* C1: within one reset epoch every get_timestamp call returns the same    *)
(* token, and the first get_timestamp after a reset_timestamp returns a    *)
(* token different from the one that was current before the reset.         *)
(***************************************************************************)
C1_EpochTokenStable ==
    /\ Cardinality(epochTokens) <= 1
    /\ \A t \in epochTokens : beforeReset # NoToken => t # beforeReset

\* a token was returned before a reset, and get_timestamp has returned
\* again after it
C1_Witness ==
    /\ beforeReset # NoToken
    /\ epochTokens # {}
    /\ tsCall = "idle"

\* C1 is checked under SpecTime; the repository calls generate_timestamp
\* only through get_current_timestamp and get_current_datetime.

(***************************************************************************)
(* C2: no two tokens returned by generate_timestamp in one process are     *)
(* equal, whatever the clock reads.                                        *)
(***************************************************************************)
C2_AllTokensDistinct ==
    \A i, j \in 1..Len(emitted) : i # j => emitted[i] # emitted[j]

(***************************************************************************)
(* C3: of two captures made one after the other from the same caller file, *)
(* the second uses a different token than the first, and every file the    *)
(* first one wrote is still on disk with the content it wrote.             *)
(***************************************************************************)
C3_SecondCaptureAddsFiles ==
    (captures >= 2 /\ prev.filename = last.filename)
        => /\ last.timestamp # prev.timestamp
           /\ prev.wrote \subseteq files

(***************************************************************************)
(* C4: whichever of the code file, the image and the HTML page fail to be  *)
(* written, no exception of the snapshot machinery reaches the caller, and *)
(* a decorated function that returns hands its caller exactly the value it *)
(* returned.                                                               *)
(***************************************************************************)
C4_FailuresStayWarnings ==
    last.n > 0
        => /\ last.raised # "snapshot"
           /\ ~last.body.raises => (last.raised = "none" /\ last.ret = last.body.ret)

\* a capture in which all three writes failed and the function returned 2
C4_Witness ==
    /\ last.n > 0
    /\ io = [code |-> TRUE, plot |-> TRUE, html |-> TRUE]
    /\ last.body.fig # 0
    /\ Len(last.warnings) >= 3
    /\ last.ret = 2

(***************************************************************************)
(* C5: when build has returned, every file under the output directory was  *)
(* written by that build: no file that was there before it survives unless *)
(* the build wrote it again.                                               *)
(***************************************************************************)
C5_OutputIsThisBuilds ==
    (lastOp = "build" /\ result = "ok") => \A f \in docs : f.fresh

\* a build returned that began with files in the output directory at paths
\* it did not write, and wrote its pages
C5_Witness ==
    /\ lastOp = "build"
    /\ result = "ok"
    /\ stale
    /\ \E f \in docs : f.path = <<"index.html">>

(***************************************************************************)
(* C6: a build that follows a build of the same, unchanged site root into  *)
(* the same output directory leaves the same files with the same contents, *)
(* whatever the site holds, auto-generated entries included.               *)
(***************************************************************************)
C6_RebuildIdentical ==
    [][(lastOp = "build" /\ result = "ok" /\ lastOp' = "build" /\ result' = "ok")
          => {<<f.path, f.content>> : f \in docs'}
                = {<<f.path, f.content>> : f \in docs}]_vars

(***************************************************************************)
(* C6, amended: the same, for a site root in which every entry directory   *)
(* that holds an image and no index.md has a name that begins with a       *)
(* date token and a time token strptime accepts.                           *)
(***************************************************************************)
C6_RebuildIdenticalDatedByName ==
    [][(/\ lastOp = "build" /\ result = "ok"
        /\ lastOp' = "build" /\ result' = "ok"
        /\ \A c \in 1..Len(collections) :
             \A i \in 1..Len(collections[c].entries) :
                LET d == collections[c].entries[i]
                    parts == split(d.name)
                IN  (d.md = "none" /\ "plot.png" \in d.files)
                        => /\ Len(parts) >= 2
                           /\ strptime(parts[1], parts[2]).ok)
          => {<<f.path, f.content>> : f \in docs'}
                = {<<f.path, f.content>> : f \in docs}]_vars

\* a site with an auto-generated entry has been built twice in a row, and
\* the entry has its detail page
C6_Witness ==
    /\ lastOp = "build"
    /\ result = "ok"
    /\ rebuilt
    /\ \E p \in 1..Len(all_plots) :
          /\ all_plots[p].auto_generated
          /\ \E f \in docs :
                f.path = <<all_plots[p].collection, all_plots[p].slug, "index.html">>

(***************************************************************************)
(* C7: when the site root has no _config.yml, a build reports an error and *)
(* writes nothing under the output directory.                              *)
(***************************************************************************)
C7_NoConfigNoSite ==
    (lastOp \in {"build", "cli_build"} /\ ~config_yml)
        => /\ result \in {"error", "refused"}
           /\ \A f \in docs : ~f.fresh

(***************************************************************************)
(* C8: when an entry's index.md has a malformed or an empty header, the    *)
(* build of a configured site still returns, and every entry that loads    *)
(* is listed on its collection's gallery page and has its detail page.     *)
(***************************************************************************)
C8_BadHeaderSkipped ==
    LET dirs == iterdir(collections)
    IN  (/\ lastOp = "build"
         /\ config_yml
         /\ \E k \in 1..Len(dirs) : dirs[k].plot_dir.md \in {"malformed", "empty"})
            => /\ result = "ok"
               /\ \A k \in 1..Len(dirs) :
                     _load_plot_metadata(dirs[k].plot_dir, 0).status = "ok"
                        => /\ \E f \in docs :
                                /\ f.path = <<dirs[k].collection,
                                              dirs[k].plot_dir.name, "index.html">>
                                /\ f.content.kind = "plot"
                           /\ \E f \in docs :
                                /\ f.path = <<dirs[k].collection, "index.html">>
                                /\ \E i \in 1..Len(f.content.shown) :
                                      f.content.shown[i].slug = dirs[k].plot_dir.name

(***************************************************************************)
(* C9: a build that returned wrote exactly one index page, listing the     *)
(* min(total, LatestLimit) newest loaded entries; for every collection     *)
(* directory one gallery page, listing that collection's loaded entries    *)
(* and no others; and for every loaded entry exactly one detail page, at   *)
(* <collection>/<entry directory>/index.html.                              *)
(***************************************************************************)
C9_PagesPerEntry ==
    LET total == Len(all_plots)
        listed == IF total < LatestLimit THEN total ELSE LatestLimit
        of(kind) == {f \in docs : f.content.kind = kind}
    IN  (lastOp = "build" /\ result = "ok")
            => /\ Cardinality(of("index")) = 1
               /\ \A f \in of("index") :
                     /\ f.path = <<"index.html">>
                     /\ Len(f.content.shown) = listed
                     /\ \A i \in 1..listed :
                           /\ f.content.shown[i].slug = all_plots[i].slug
                           /\ f.content.shown[i].collection = all_plots[i].collection
               /\ Cardinality(of("gallery")) = Len(collections)
               /\ \A c \in 1..Len(collections) :
                     \E f \in of("gallery") :
                        /\ f.path = <<collections[c].name, "index.html">>
                        /\ Len(f.content.shown) =
                              Cardinality({p \in 1..total :
                                  all_plots[p].collection = collections[c].name})
                        /\ \A i \in 1..Len(f.content.shown) :
                              /\ f.content.shown[i].collection = collections[c].name
                              /\ \E p \in 1..total :
                                    /\ all_plots[p].collection = collections[c].name
                                    /\ all_plots[p].slug = f.content.shown[i].slug
               /\ Cardinality(of("plot")) = total
               /\ \A p \in 1..total :
                     \E f \in of("plot") :
                        /\ f.path = <<all_plots[p].collection, all_plots[p].slug,
                                      "index.html">>
                        /\ f.content.shown[1].slug = all_plots[p].slug

(***************************************************************************)
(* C10: get_all_plots returns the entries by date, newest first, and       *)
(* entries of equal date in the order they were enumerated; every gallery  *)
(* page lists its entries newest first.                                    *)
(***************************************************************************)
C10_NewestFirstStable ==
    LET dirs == iterdir(collections)
        enumerated(p) == CHOOSE k \in 1..Len(dirs) :
                            /\ dirs[k].collection = p.collection
                            /\ dirs[k].plot_dir.name = p.slug
        loaded(card) == CHOOSE p \in 1..Len(all_plots) :
                            /\ all_plots[p].collection = card.collection
                            /\ all_plots[p].slug = card.slug
    IN  (lastOp = "build" /\ result = "ok")
            => /\ \A i, j \in 1..Len(all_plots) :
                     i < j => /\ all_plots[i].date >= all_plots[j].date
                              /\ all_plots[i].date = all_plots[j].date
                                    => enumerated(all_plots[i]) < enumerated(all_plots[j])
               /\ \A f \in docs :
                     f.content.kind = "gallery"
                        => \A i, j \in 1..Len(f.content.shown) :
                              i < j => all_plots[loaded(f.content.shown[i])].date
                                          >= all_plots[loaded(f.content.shown[j])].date

\* the build loaded two entries of one date, and a gallery page lists two
\* entries
C10_Witness ==
    /\ lastOp = "build"
    /\ result = "ok"
    /\ \E i, j \in 1..Len(all_plots) :
          i # j /\ all_plots[i].date = all_plots[j].date
    /\ \E f \in docs : f.content.kind = "gallery" /\ Len(f.content.shown) >= 2

(***************************************************************************)
(* C11: after any sequence of captures into one site collection every      *)
(* capture has its own entry directory: two captures into the same         *)
(* collection never share a slug <token>_<sanitized title>, so the entry   *)
(* directory of the earlier one is not written again by the later one.     *)
(***************************************************************************)
C11_OwnEntryDirectory ==
    (/\ prev.entry # NoEntry
     /\ last.entry # NoEntry
     /\ prev.entry.collection = last.entry.collection)
        => prev.entry.name # last.entry.name

\* the entry directory that the last capture wrote
EntryOf(c) ==
    LET S == {e \in UNION {{collections[i].entries[j] :
                               j \in 1..Len(collections[i].entries)} :
                            i \in {i \in 1..Len(collections) :
                                     collections[i].name = c.entry.collection}} :
                e.name = c.entry.name}
    IN  CHOOSE e \in S : TRUE

(***************************************************************************)
(* C12: round trip: the index.md that a capture's site-generation step     *)
(* writes, loaded by the site builder's metadata reader, yields the title, *)
(* the tags and the date that the capture wrote.                           *)
(***************************************************************************)
C12_IndexMdRoundTrip ==
    last.entry # NoEntry =>
        LET m == load_front_matter(EntryOf(last).index_md)
        IN  /\ m.status = "ok"
            /\ m.keys = {"title", "tags", "date"}
            /\ m.title = last.config.title
            /\ m.tags = last.config.tags
            /\ m.date = last.today

\* the kinds of the files that a capture wrote
KindsWritten(c) == {f.content.kind : f \in c.wrote}

\* nothing fails to be written
NoFailure == io = [code |-> FALSE, plot |-> FALSE, html |-> FALSE]

(***************************************************************************)
(* C13: a capture made while the current figure has axes, when no write    *)
(* fails, writes exactly three files into the capture directory, the code, *)
(* the image and the HTML page, and the names of all three begin with the  *)
(* capture's token.                                                        *)
(***************************************************************************)
C13_ThreeFilesOneToken ==
    (last.n > 0 /\ last.body.fig # 0 /\ NoFailure) =>
        /\ Cardinality(last.wrote) = 3
        /\ KindsWritten(last) = {"code", "plot", "html"}
        /\ \A f \in last.wrote :
              /\ f.path.dir = create_output_directory(last.filename)
              /\ f.path.name[1] = last.timestamp
              /\ f.path.name[1] # NoToken

C13_Witness ==
    /\ last.n = 2 /\ last.body.fig # 0 /\ NoFailure
    /\ Cardinality(last.wrote) = 3
    /\ last.timestamp # prev.timestamp

(***************************************************************************)
(* C14: a capture made with no active figure, when no write fails, writes  *)
(* exactly two files, the code and the HTML page, and no image; it raises  *)
(* nothing and warns of nothing, and the HTML page holds the "No plot was  *)
(* generated" placeholder in place of an image reference.                  *)
(***************************************************************************)
C14_NoFigureTwoFiles ==
    (last.n > 0 /\ last.body.fig = 0 /\ NoFailure) =>
        /\ Cardinality(last.wrote) = 2
        /\ KindsWritten(last) = {"code", "html"}
        /\ last.raised # "snapshot"
        /\ last.warnings = <<>>
        /\ ~last.body.raises => (last.raised = "none" /\ last.ret = last.body.ret)
        /\ \A f \in last.wrote : f.content.kind = "html" => f.content.img = NoName

C14_Witness ==
    /\ last.n > 0 /\ last.body.fig = 0 /\ NoFailure /\ ~last.body.raises
    /\ \E f \in last.wrote : f.content.kind = "html" /\ f.content.img = NoName

(***************************************************************************)
(* C15: the steps of a capture are independent on failure: all three are   *)
(* entered whichever of them fail, and each leaves its file on disk        *)
(* exactly when its own write succeeds: the HTML page and (when there is a *)
(* figure) the image are written although writing the code failed, and the *)
(* HTML page is written although saving the image failed.                  *)
(***************************************************************************)
C15_StepsIndependent ==
    last.n > 0 =>
        /\ last.steps = <<"code", "plot", "html">>
        /\ ("code" \in KindsWritten(last)) <=> ~io.code
        /\ ("plot" \in KindsWritten(last)) <=> (last.body.fig # 0 /\ ~io.plot)
        /\ ("html" \in KindsWritten(last)) <=> ~io.html
        /\ \A f \in last.wrote : f \in files

C15_Witness ==
    /\ last.n > 0 /\ io.code /\ ~io.plot /\ ~io.html /\ last.body.fig # 0
    /\ KindsWritten(last) = {"plot", "html"}

(***************************************************************************)
(* C16: get_calling_info never raises; it returns the source text of the   *)
(* enclosing function when that is obtainable, otherwise the text of the   *)
(* whole enclosing file, otherwise a placeholder string; when no calling   *)
(* frame can be resolved it returns the fixed fallback record.             *)
(***************************************************************************)
C16_SourceFallbackChain ==
    calling_info.depth > 0 =>
        LET info == calling_info.info
            resolved == call_stack.frames >= calling_info.depth + 1
            function_obtainable ==
                /\ call_stack.function_name # "<module>"
                /\ call_stack.in_globals
                /\ call_stack.getsourcelines
        IN  /\ ~info.raised
            /\ ~resolved => info = _get_fallback_info
            /\ resolved =>
                  info.source_code =
                      IF function_obtainable THEN FunctionText
                      ELSE IF call_stack.file THEN FileText
                      ELSE Placeholder

\* the order of two tokens as strings: they have the same width, so it is
\* the order of their digits from the left
lexically_less(a, b) == a[1] < b[1] \/ (a[1] = b[1] /\ a[2] < b[2])

(***************************************************************************)
(* C17: every token that generate_timestamp returns is lexically greater   *)
(* than every token it returned earlier in the process: the lexical order  *)
(* of the tokens is the order of their creation.                           *)
(***************************************************************************)
C17_TokensIncrease ==
    \A i, j \in 1..Len(emitted) :
        i < j => lexically_less(emitted[i], emitted[j])

(***************************************************************************)
(* C18: generate_timestamp keeps retrying, without a timeout, while the    *)
(* clock yields the token that was emitted last: no pass of the loop       *)
(* returns on such a reading, however many passes went before; and the     *)
(* call returns eventually, given that the clock comes to read another     *)
(* millisecond.                                                            *)
(***************************************************************************)
C18_RetriesUntilClockMoves ==
    /\ [][(tsCall # "idle" /\ Strftime(now) = LAST_EMITTED_TIMESTAMP)
            => (tsCall' = tsCall /\ emitted' = emitted)]_vars
    /\ (tsCall # "idle") ~> (tsCall = "idle")

C18_Witness ==
    /\ tsCall # "idle"
    /\ spins = MaxSpin
    /\ Strftime(now) = LAST_EMITTED_TIMESTAMP

\* the pages of a kind in the output directory
PagesOf(kind) == {f \in docs : f.content.kind = kind}

(***************************************************************************)
(* C19: after a build that returned, every collection directory, one with  *)
(* no loadable entry included, has a gallery page at <name>/index.html in  *)
(* the output directory and a card with its number of entries on the index *)
(* page.                                                                   *)
(***************************************************************************)
C19_EveryCollectionHasGallery ==
    (lastOp = "build" /\ result = "ok") =>
        \A c \in 1..Len(collections) :
            LET name == collections[c].name
                count == Cardinality({p \in 1..Len(all_plots) :
                                         all_plots[p].collection = name})
            IN  /\ \E f \in PagesOf("gallery") : f.path = <<name, "index.html">>
                /\ \A f \in PagesOf("index") :
                      \E k \in 1..Len(f.content.cards) :
                         f.content.cards[k] = <<name, count>>

\* the entry directories of the site root without an index.md, each with its
\* collection
Unlabelled ==
    {d \in {iterdir(collections)[k] : k \in 1..Len(iterdir(collections))} :
        d.plot_dir.md = "none"}

\* it holds an image file
HasImage(plot_dir) == \E f \in plot_dir.files : suffix(f) \in {"png", "jpg"}

\* the title that the claim gives a directory name: '_' replaced by spaces,
\* title-cased, as the sequence of its words
TitleCased(name) ==
    CASE name = "20240102_090000_drop" -> <<"20240102", "090000", "Drop">>
      [] name = "my_scratch"           -> <<"My", "Scratch">>
      [] name = "bare"                 -> <<"Bare">>

\* the cards and details that the pages of the output directory show
Shown ==
    UNION {{f.content.shown[i] : i \in 1..Len(f.content.shown)} :
             f \in PagesOf("index") \cup PagesOf("gallery") \cup PagesOf("plot")}

(***************************************************************************)
(* C20: after a build that returned, an entry directory with an image file *)
(* and no index.md is among the loaded entries, with auto-generated        *)
(* metadata whose title is the directory name with '_' replaced by spaces  *)
(* and title-cased, and has its detail page and its card under that title; *)
(* an entry directory with neither index.md nor image file is not loaded   *)
(* and is shown on no page.                                                *)
(***************************************************************************)
C20_AutoGeneratedEntries ==
    (lastOp = "build" /\ result = "ok") =>
        \A d \in Unlabelled :
            LET mine(x) == x.collection = d.collection /\ x.slug = d.plot_dir.name
            IN  IF HasImage(d.plot_dir)
                THEN /\ \E p \in 1..Len(all_plots) :
                          /\ mine(all_plots[p])
                          /\ all_plots[p].auto_generated
                          /\ all_plots[p].title = TitleCased(d.plot_dir.name)
                     /\ \E f \in PagesOf("plot") :
                          /\ f.path = <<d.collection, d.plot_dir.name, "index.html">>
                          /\ mine(f.content.shown[1])
                     /\ \E f \in PagesOf("gallery") :
                          \E i \in 1..Len(f.content.shown) : mine(f.content.shown[i])
                     /\ \A x \in Shown : mine(x) => x.title = TitleCased(d.plot_dir.name)
                ELSE /\ \A p \in 1..Len(all_plots) : ~mine(all_plots[p])
                     /\ \A x \in Shown : ~mine(x)
                     /\ \A f \in PagesOf("plot") :
                          f.path # <<d.collection, d.plot_dir.name, "index.html">>

\* a build that returned read an entry directory with an image and no
\* index.md, and one with neither
C20_Witness ==
    /\ lastOp = "build" /\ result = "ok"
    /\ \E d \in Unlabelled : HasImage(d.plot_dir) /\ Len(split(d.plot_dir.name)) >= 2
    /\ \E d \in Unlabelled : ~HasImage(d.plot_dir)
    /\ \E x \in Shown : x.title \in {<<"My", "Scratch">>, <<"20240102", "090000", "Drop">>}

\* the entry directories of the site root, each with its collection
EntryDirs ==
    UNION {{[collection |-> collections[c].name,
             plot_dir |-> collections[c].entries[i]] :
               i \in 1..Len(collections[c].entries)} :
           c \in 1..Len(collections)}

\* the entry directory names that begin with '_'
ReservedNames == {"_drafts"}

\* the files of the output directory under <collection>/<entry directory>
OutputOf(d) ==
    {f \in docs : /\ Len(f.path) >= 2
                  /\ f.path[1] = d.collection
                  /\ f.path[2] = d.plot_dir.name}

(***************************************************************************)
(* C21: after a build, an entry directory whose name begins with '_' is    *)
(* not among the loaded entries, is shown on no index, gallery or detail   *)
(* page, and has none of its files in the output directory; every other    *)
(* entry directory is enumerated: its files other than *.md are copied,    *)
(* and when the build returned it is loaded if it has a header that loads  *)
(* or, without index.md, an image.                                         *)
(***************************************************************************)
C21_ReservedEntriesSkipped ==
    lastOp = "build" =>
        \A d \in EntryDirs :
            LET mine(x) == x.collection = d.collection /\ x.slug = d.plot_dir.name
                loaded == \E p \in 1..Len(all_plots) : mine(all_plots[p])
            IN  IF d.plot_dir.name \in ReservedNames
                THEN /\ ~loaded
                     /\ \A x \in Shown : ~mine(x)
                     /\ OutputOf(d) = {}
                ELSE /\ \A file \in d.plot_dir.files :
                          suffix(file) # "md" =>
                             \E f \in OutputOf(d) :
                                f.path = <<d.collection, d.plot_dir.name, file>>
                     /\ result = "ok" =>
                          (loaded <=> \/ d.plot_dir.md = "valid"
                                      \/ d.plot_dir.md = "none" /\ HasImage(d.plot_dir))

\* a build that returned read a reserved entry directory with files and
\* loaded another entry
C21_Witness ==
    /\ lastOp = "build" /\ result = "ok"
    /\ \E d \in EntryDirs :
          d.plot_dir.name \in ReservedNames /\ d.plot_dir.files # {}
    /\ Len(all_plots) > 0

\* the directory that a relative prefix leads to from directory dir of the
\* output directory: each '..' drops the last part, and a '..' at the output
\* directory itself leads out of it
RECURSIVE resolve(_, _)
resolve(dir, prefix) ==
    IF prefix = <<>> THEN dir
    ELSE IF Head(prefix) = ".."
    THEN IF dir = <<>> THEN <<"..">> \o prefix
         ELSE resolve(SubSeq(dir, 1, Len(dir) - 1), Tail(prefix))
    ELSE resolve(Append(dir, Head(prefix)), Tail(prefix))

\* the directory of a file, from its path
dirname(path) == SubSeq(path, 1, Len(path) - 1)

(***************************************************************************)
(* C22: the relative prefix of a page that lies d directories below the    *)
(* output directory is d parent steps (none for the index, '..' for a      *)
(* gallery page, '../..' for a detail page), so the prefix of every page,  *)
(* resolved from the page's own directory, is the output directory.        *)
(***************************************************************************)
C22_PrefixLeadsToOutputDir ==
    \A f \in PagesOf("index") \cup PagesOf("gallery") \cup PagesOf("plot") :
        /\ Len(f.content.base_path) = Len(dirname(f.path))
        /\ \A i \in 1..Len(f.content.base_path) : f.content.base_path[i] = ".."
        /\ resolve(dirname(f.path), f.content.base_path) = <<>>
        /\ Len(dirname(f.path)) = CASE f.content.kind = "index"   -> 0
                                     [] f.content.kind = "gallery" -> 1
                                     [] f.content.kind = "plot"    -> 2

\* a build wrote an index page, a gallery page and a detail page
C22_Witness ==
    /\ lastOp = "build" /\ result = "ok"
    /\ PagesOf("index") # {} /\ PagesOf("gallery") # {} /\ PagesOf("plot") # {}

(***************************************************************************)
(* C25: the documentation page of a capture names an image file only if    *)
(* that capture wrote the image file: when saving the image fails the page *)
(* carries the no-plot placeholder, not a link to a file that is missing.  *)
(***************************************************************************)
C25_PageNamesWrittenImage ==
    \A f \in last.wrote :
        (f.content.kind = "html" /\ f.content.img # NoName)
            => \E g \in last.wrote :
                 /\ g.content.kind = "plot"
                 /\ g.path.dir = f.path.dir
                 /\ g.path.name = f.content.img

(***************************************************************************)
(* C26: a capture made with a site and a collection but no title, into a   *)
(* site root that holds _config.yml, creates its entry: a directory named  *)
(* <token>_plot holding an index.md whose title is the name of the calling *)
(* function.                                                               *)
(***************************************************************************)
C26_UntitledCaptureHasEntry ==
    (/\ last.n > 0
     /\ config_yml
     /\ last.config.collection # NoCollection
     /\ last.config.title = NoTitle)
        => /\ last.entry # NoEntry
           /\ last.entry.name = [token |-> last.timestamp, title |-> <<"plot">>]
           /\ "index.md" \in EntryOf(last).files
           /\ load_front_matter(EntryOf(last).index_md).title = <<"plot_a">>

(***************************************************************************)
(* C28: when the wrapped function raises, the capture is still attempted   *)
(* at exit (its steps run) and the function's own exception reaches the    *)
(* caller: it is not swallowed and not replaced by a snapshot error, also  *)
(* when steps of the capture fail.                                         *)
(***************************************************************************)
C28_BodyExceptionPropagates ==
    (last.n > 0 /\ last.body.raises)
        => /\ last.raised = "body"
           /\ last.ret = NoValue
           /\ last.steps = <<"code", "plot", "html">>

\* a function that drew a figure and raised, in a run where all three writes
\* of the capture fail
C28_Witness ==
    /\ last.n > 0
    /\ last.body.raises
    /\ last.body.fig # 0
    /\ io = [code |-> TRUE, plot |-> TRUE, html |-> TRUE]
    /\ Len(last.warnings) >= 3
    /\ last.raised = "body"

(***************************************************************************)
(* C30: in every state of the timestamp module the cached token and the    *)
(* cached datetime are both unset or both set; when set, the token is the  *)
(* millisecond formatting of the datetime and is the last emitted token;   *)
(* the last emitted token is the last token generate_timestamp returned,   *)
(* whatever reset_timestamp cleared since.                                 *)
(***************************************************************************)
C30_CacheConsistent ==
    /\ (GLOBAL_TIMESTAMP = NoToken) <=> (GLOBAL_DATETIME = NoDatetime)
    /\ GLOBAL_TIMESTAMP # NoToken
         => /\ GLOBAL_TIMESTAMP = Strftime(GLOBAL_DATETIME)
            /\ GLOBAL_TIMESTAMP = LAST_EMITTED_TIMESTAMP
    /\ LAST_EMITTED_TIMESTAMP =
         IF emitted = <<>> THEN NoToken ELSE emitted[Len(emitted)]

\* after a token was generated and reset_timestamp was called: the cache is
\* empty, the last emitted token is kept
C30_Witness ==
    /\ emitted # <<>>
    /\ beforeReset # NoToken
    /\ GLOBAL_TIMESTAMP = NoToken
    /\ GLOBAL_DATETIME = NoDatetime
    /\ LAST_EMITTED_TIMESTAMP = emitted[Len(emitted)]

(***************************************************************************)
(* C23: declaring a collection (collection create name) adds               *)
(* collections[name] = {title, description, output: true} to the           *)
(* configuration in _config.yml, the title and description being the ones  *)
(* given or their defaults, and leaves every other key of the              *)
(* configuration and every collection declared before as it was; without   *)
(* _config.yml it creates no directory and no file.                        *)
(***************************************************************************)
C23_DeclareAddsOneCollection ==
    [][lastOp' = "create_collection" =>
         IF ~config_yml
         THEN UNCHANGED <<config_yml, site_config, collections, index_mds>>
         ELSE LET old == safe_load_config(site_config)
                  new == safe_load_config(site_config')
                  name == declared'.name
                  title == IF declared'.title # PyNone THEN declared'.title
                           ELSE Str(default_collection_title(name))
                  description == IF declared'.description # PyNone
                                 THEN declared'.description
                                 ELSE Str(<<"Plot collection for ", name>>)
              IN  /\ config_yml'
                  /\ {c \in new.collections : c.name = name}
                        = {[name |-> name, title |-> title,
                            description |-> description, output |-> PyTrue]}
                  /\ {c \in new.collections : c.name # name}
                        = {c \in old.collections : c.name # name}
                  /\ new.scalars = old.scalars
                  /\ new.defaults = old.defaults]_vars

\* both collections are declared, exp-1 last with the title true and no
\* description, in a site whose own title is true
C23_Witness ==
    /\ lastOp = "create_collection"
    /\ config_yml
    /\ declared = [name |-> "exp-1", title |-> Str(<<"true">>), description |-> PyNone]
    /\ safe_load_config(site_config).scalars["title"] = Str(<<"true">>)
    /\ {c.name : c \in safe_load_config(site_config).collections} = CollectionNames
    /\ \E c \in safe_load_config(site_config).collections :
         c.name = "exp-1" /\ c.title = Str(<<"true">>)
    /\ \E f \in index_mds : f.collection = "exp-1"

\* the place of a request in the order of publish_snapshot
RequestRank(request) ==
    CASE request = "publish" -> 1
      [] request = "code" -> 2
      [] request = "plot" -> 3
      [] request = "finalize" -> 4

(***************************************************************************)
(* C24: publish_snapshot makes its requests in the order signed URLs, code *)
(* upload, image upload, finalize; it uploads no file unless the           *)
(* signed-URL request succeeded, uploads the image only when the capture   *)
(* directory holds an image and a URL for it was returned, calls finalize  *)
(* only after every upload succeeded, and does not fail when finalize      *)
(* fails.                                                                  *)
(***************************************************************************)
C24_PublishOrder ==
    published.n > 0 =>
        LET log == published.log
            env == published.env
            made(request) == \E i \in 1..Len(log) : log[i].request = request
        IN  /\ \A i, j \in 1..Len(log) :
                 i < j => RequestRank(log[i].request) < RequestRank(log[j].request)
            /\ (made("code") \/ made("plot"))
                 => log[1] = [request |-> "publish", ok |-> TRUE]
            /\ made("plot") => (env.plot_file /\ env.plot_url)
            /\ made("finalize")
                 => \A i \in 1..Len(log) : log[i].request # "finalize" => log[i].ok
            /\ (made("finalize") /\ ~env.finalize)
                 => (published.raised = "none" /\ published.returned)

\* both files were uploaded and finalize failed
C24_Witness ==
    /\ published.n > 0
    /\ ~published.env.finalize
    /\ Len(published.log) = 4
    /\ published.log[4] = [request |-> "finalize", ok |-> FALSE]
    /\ published.returned

(***************************************************************************)
(* C27: build never creates, changes or deletes _config.yml or an entry of *)
(* a collection under the site root, whatever output directory it is       *)
(* given: the site root's collections are the same before and after build. *)
(***************************************************************************)
C27_BuildLeavesSourceAlone ==
    [][lastOp' = "build"
         => (config_yml' = config_yml /\ collections' = collections)]_vars

\* the place of a step in the order of _create_snapshot
StepRank(step) ==
    CASE step = "code" -> 1
      [] step = "plot" -> 2
      [] step = "html" -> 3
      [] step = "site" -> 4
      [] step = "commit" -> 5
      [] step = "build" -> 6
      [] step = "deploy" -> 7

\* the steps of the last capture ran in the order of _create_snapshot
StepsInOrder ==
    \A i, j \in 1..Len(last.steps) :
        i < j => StepRank(last.steps[i]) < StepRank(last.steps[j])

\* the capture's entry is among the plots of the build that the capture ran
\* and has its detail page in the output directory
EntryBuilt ==
    /\ last.built.ran
    /\ last.entry # NoEntry
    /\ \E i \in 1..Len(all_plots) :
         /\ all_plots[i].collection = last.entry.collection
         /\ all_plots[i].slug = dir_name(last.entry.name)
    /\ \E f \in docs :
         f.path = <<last.entry.collection, dir_name(last.entry.name), "index.html">>

(***************************************************************************)
(* C29: at the exit of a capture the steps run in the order code file,     *)
(* image, HTML page, site entry, auto-commit, auto-build, auto-deploy; so  *)
(* with auto_build on, the build starts after the capture's entry was      *)
(* written and the built site contains it, and auto-deploy does not run    *)
(* before the build.  Stated for captures into a site root that holds its  *)
(* _config.yml.                                                            *)
(***************************************************************************)
C29_StepsInOrderEntryBuilt ==
    (last.n > 0 /\ config_yml) =>
        /\ StepsInOrder
        /\ last.config.auto_build => EntryBuilt

====
